---- MODULE Spec2Model ----
(***************************************************************************)
(* Construction of landlab's DualIcosphereGraph                            *)
(* (landlab/graph/quasi_spherical/dual_icosphere.py).                      *)
(*                                                                         *)
(* The constructor runs five builders in a fixed order on the vertex list  *)
(* and the triangle list of a RefinableIcosahedron:                        *)
(*   setup_nodes, setup_links, setup_patches_and_corners, setup_faces,     *)
(*   setup_cells.                                                          *)
(* Each builder is one action.  A builder that raises leaves the tables it *)
(* had written so far and ends the construction (pc = "raised").           *)
(*                                                                         *)
(* Conventions                                                             *)
(*  - numpy arrays and Python lists are functions on 0..n-1;               *)
(*  - an index into a numpy array follows Python's rule: i in [-n, n)      *)
(*    is accepted, a negative i meaning n+i; anything else is IndexError;  *)
(*  - coordinates are integer triples.  A corner is kept as the direction  *)
(*    cross(p1-p0, p2-p0) of its patch's normal; normalising to the        *)
(*    radius keeps the direction, and the zero direction divides 0 by 0:   *)
(*    the NaN triple;                                                      *)
(*  - lengths and areas are kept as the arguments handed to the geometry   *)
(*    kernel (arc_length, area_of_sphertri), which is not evaluated.       *)
(***************************************************************************)
EXTENDS Integers, Sequences, FiniteSets, TLC

\* ------------------------------------------------------------------ bounds

\* Longest triangle list of the exhaustively enumerated small inputs.
MaxTris == 2

\* ------------------------------------------------------- program constants

\* Row width of links_at_node, link_dirs_at_node and corners_at_node.
Capacity == 6

\* Padding value of links_at_node and corners_at_node.
Sentinel == -1

\* ---------------------------------------------------------------- helpers

\* A Python list / numpy array written as a tuple, indexed from 0.
Arr(s) == [i \in 0..(Len(s) - 1) |-> s[i + 1]]

ALen(a) == Cardinality(DOMAIN a)

\* range(n)
Range(n) == 0..(n - 1)

\* numpy / Python indexing: is index i accepted by an axis of length n ...
InRange(i, n) == (-n <= i) /\ (i < n)

\* ... and the position it denotes.
Idx(i, n) == IF i < 0 THEN i + n ELSE i

Min2(a, b) == IF a <= b THEN a ELSE b

Max2(a, b) == IF a >= b THEN a ELSE b

\* np.zeros((n, w), dtype=int) + fill
Full(n, w, fill) == [i \in Range(n) |-> [k \in Range(w) |-> fill]]

\* np.count_nonzero(row + 1): the entries of the row other than -1.
CountNonSentinel(row) == Cardinality({k \in DOMAIN row : row[k] + 1 # 0})

\* np.amin(row)
AMin(row) == CHOOSE m \in {row[k] : k \in DOMAIN row} :
                 \A k \in DOMAIN row : m <= row[k]

\* ------------------------------------------------------------ vector maths

\* A coordinate is a number a + b t, t the golden ratio (1 + sqrt(5)) / 2,
\* kept exactly as the pair <<a, b>> of integers; t * t = t + 1.  The
\* vertices of the icosahedron are of this form, and so is everything the
\* builders derive from them by sums and products.
Num(a) == <<a, 0>>

Add(x, y) == <<x[1] + y[1], x[2] + y[2]>>

Sub(x, y) == <<x[1] - y[1], x[2] - y[2]>>

Mul(x, y) == <<x[1] * y[1] + x[2] * y[2],
               x[1] * y[2] + x[2] * y[1] + x[2] * y[2]>>

Sgn(i) == IF i > 0 THEN 1 ELSE IF i < 0 THEN -1 ELSE 0

\* The sign of a + b t: that of p + q sqrt(5) with p = 2 a + b, q = b.
Sign(x) ==
    LET p == 2 * x[1] + x[2]
        q == x[2]
    IN  IF q = 0 THEN Sgn(p)
        ELSE IF p = 0 THEN Sgn(q)
        ELSE IF Sgn(p) = Sgn(q) THEN Sgn(p)
        ELSE IF p > 0 THEN Sgn(p * p - 5 * q * q)
        ELSE Sgn(5 * q * q - p * p)

\* A point with integer coordinates.
Point(x, y, z) == <<Num(x), Num(y), Num(z)>>

Sub3(p, q) == <<Sub(p[1], q[1]), Sub(p[2], q[2]), Sub(p[3], q[3])>>

\* np.cross(U, V)
Cross3(u, v) == <<Sub(Mul(u[2], v[3]), Mul(u[3], v[2])),
                  Sub(Mul(u[3], v[1]), Mul(u[1], v[3])),
                  Sub(Mul(u[1], v[2]), Mul(u[2], v[1]))>>

\* veclen = sqrt(x^2 + y^2 + z^2) is zero exactly for the zero vector, and
\* coords *= radius / veclen then yields 0 * inf = NaN in every component
\* (numpy warns and carries on).
IsNaN(c) == c = Point(0, 0, 0)

\* ------------------------------------------------------------------ inputs
\* The vertex list and the triangle list come from RefinableIcosahedron
\* (vertices, faces), which the builders take as they are.

\* RefinableIcosahedron.faces at densification level 0.
IcoFaces == Arr(<<
    Arr(<<0, 11, 5>>), Arr(<<0, 5, 1>>),  Arr(<<0, 1, 7>>),   Arr(<<0, 7, 10>>),
    Arr(<<0, 10, 11>>), Arr(<<1, 5, 9>>), Arr(<<5, 11, 4>>),  Arr(<<11, 10, 2>>),
    Arr(<<10, 7, 6>>), Arr(<<7, 1, 8>>),  Arr(<<3, 9, 4>>),   Arr(<<3, 4, 2>>),
    Arr(<<3, 2, 6>>),  Arr(<<3, 6, 8>>),  Arr(<<3, 8, 9>>),   Arr(<<4, 9, 5>>),
    Arr(<<2, 4, 11>>), Arr(<<6, 2, 10>>), Arr(<<8, 6, 7>>),   Arr(<<9, 8, 1>>) >>)

\* RefinableIcosahedron.vertices before scaling to the radius: (-1, t, 0),
\* (1, t, 0), ... with t the golden ratio (the tables depend on the
\* directions only).
IcoVertices ==
    LET o == <<0, 0>>
        p == <<1, 0>>
        m == <<-1, 0>>
        t == <<0, 1>>
        u == <<0, -1>>
    IN  Arr(<<
        <<m, t, o>>, <<p, t, o>>, <<m, u, o>>, <<p, u, o>>,
        <<o, m, t>>, <<o, p, t>>, <<o, m, u>>, <<o, p, u>>,
        <<t, o, m>>, <<t, o, p>>, <<u, o, m>>, <<u, o, p>> >>)

\* A tetrahedron: the smallest closed mesh of proper triangles (degree 3).
TetraVertices == Arr(<< Point(1, 1, 1), Point(1, -1, -1),
                        Point(-1, 1, -1), Point(-1, -1, 1) >>)

TetraFaces == Arr(<< Arr(<<0, 1, 2>>), Arr(<<0, 3, 1>>),
                     Arr(<<0, 2, 3>>), Arr(<<1, 3, 2>>) >>)

\* A hexagonal bipyramid: a closed mesh whose two apexes have degree 6
\* (rows without padding), as the vertices a refinement introduces have.
BipyramidVertices == Arr(<<
    Point(3, 0, 0), Point(-3, 0, 0),
    Point(0, 3, 1), Point(0, 1, 3), Point(0, -2, 2),
    Point(0, -3, -1), Point(0, -1, -3), Point(0, 2, -2) >>)

\* The same bipyramid with its apexes on the z axis, as the poles of an
\* icosphere of level 1 and above are.
PolarBipyramidVertices == Arr(<<
    Point(0, 0, 3), Point(0, 0, -3),
    Point(3, 1, 0), Point(1, 3, 0), Point(-2, 2, 0),
    Point(-3, -1, 0), Point(-1, -3, 0), Point(2, -2, 0) >>)

BipyramidFaces == Arr(<<
    Arr(<<0, 2, 3>>), Arr(<<0, 3, 4>>), Arr(<<0, 4, 5>>),
    Arr(<<0, 5, 6>>), Arr(<<0, 6, 7>>), Arr(<<0, 7, 2>>),
    Arr(<<1, 3, 2>>), Arr(<<1, 4, 3>>), Arr(<<1, 5, 4>>),
    Arr(<<1, 6, 5>>), Arr(<<1, 7, 6>>), Arr(<<1, 2, 7>>) >>)

\* Three two-sided triangles round vertex 0 whose corners have, at vertex
\* 0, two exact angles: three corners of different coordinates at each.
FanVertices == Arr(<<
    Point(-3, 0, 0), Point(-5, 2, 0), Point(-5, 4, -2), Point(-4, 0, -2),
    Point(-4, 1, -3), Point(-4, -3, 2), Point(-4, -2, 1) >>)

FanFaces == Arr(<<
    Arr(<<0, 1, 2>>), Arr(<<0, 2, 1>>), Arr(<<0, 3, 4>>),
    Arr(<<0, 4, 3>>), Arr(<<0, 5, 6>>), Arr(<<0, 6, 5>>) >>)

\* Two two-sided triangles round vertex 0, the first in a plane
\* perpendicular to the position vector of vertex 0.
CapVertices == Arr(<<
    Point(1, 1, 1), Point(2, 0, 1), Point(0, 1, 2), Point(-1, 2, 5),
    Point(3, 3, -1) >>)

CapFaces == Arr(<<
    Arr(<<0, 1, 2>>), Arr(<<0, 2, 1>>), Arr(<<0, 3, 4>>), Arr(<<0, 4, 3>>) >>)

\* Three vertices in general position, and three on a line.
SmallVertices == Arr(<< Point(3, 1, 1), Point(1, 3, 1), Point(1, 1, 3) >>)

FlatVertices == Arr(<< Point(1, 2, 1), Point(2, 3, 1), Point(3, 4, 1) >>)

\* The two-sided triangle on vertices 0, 1 and 2, the last vertex named by
\* its negative index.
NegativeIndexFaces == Arr(<< Arr(<<0, 1, -1>>), Arr(<<0, -1, 1>>) >>)

\* A two-sided triangle with vertex 0 at the origin, where the spherical
\* coordinates are undefined.
OriginVertices == Arr(<< Point(0, 0, 0), Point(1, 3, 1), Point(1, 1, 3) >>)

OriginFaces == Arr(<< Arr(<<0, 1, 2>>), Arr(<<0, 2, 1>>) >>)

\* No vertex, and no triangle.
NoVertices == Arr(<<>>)

NoFaces == Arr(<<>>)

\* Every triangle list of 1..MaxTris triangles on three vertices, repeated
\* vertices and repeated triangles included.
SmallFaceLists ==
    UNION {[Range(k) -> [Range(3) -> Range(3)]] : k \in 1..MaxTris}

\* One slot of a triangle list overwritten by v.
ReplaceSlot(faces, t, s, v) == [faces EXCEPT ![t] = [@ EXCEPT ![s] = v]]

\* A triangle list with triangle t left out.
DropTriangle(faces, t) ==
    [n \in Range(ALen(faces) - 1) |-> IF n < t THEN faces[n] ELSE faces[n + 1]]

\* A well-formed mesh, and the same mesh with one defect: a slot naming any
\* value of -(N+1)..N (out of range at either end, negative, or another
\* vertex), or a triangle missing.
WithOneDefect(vertices, faces) ==
    LET N == ALen(vertices)
    IN  {faces}
        \cup {ReplaceSlot(faces, t, s, v) :
                 t \in DOMAIN faces, s \in Range(3), v \in (-(N + 1))..N}
        \cup {DropTriangle(faces, t) : t \in DOMAIN faces}

Inputs ==
    {<<vs, fs>> : vs \in {SmallVertices, FlatVertices}, fs \in SmallFaceLists}
    \cup {<<SmallVertices, NegativeIndexFaces>>}
    \cup {<<IcoVertices, fs>> : fs \in WithOneDefect(IcoVertices, IcoFaces)}
    \cup {<<TetraVertices, fs>> : fs \in WithOneDefect(TetraVertices, TetraFaces)}
    \cup {<<BipyramidVertices, fs>> :
             fs \in WithOneDefect(BipyramidVertices, BipyramidFaces)}
    \cup {<<PolarBipyramidVertices, BipyramidFaces>>}
    \cup {<<FanVertices, FanFaces>>, <<CapVertices, CapFaces>>}
    \cup {<<NoVertices, NoFaces>>, <<SmallVertices, NoFaces>>}
    \cup {<<OriginVertices, OriginFaces>>}

\* ------------------------------------------------------------------- state

VARIABLES
    pc,                 \* the builder __init__ runs next, "done" or "raised"
    err,                \* the exception that ended __init__, or "none"
    ico_vertices,       \* ico.vertices
    ico_faces,          \* ico.faces
    number_of_nodes,
    coords_of_node,
    links,              \* self.links: the dict, as its items in insertion order
    nodes_at_link,
    links_at_node,
    link_dirs_at_node,
    number_of_links,
    length_of_link,
    number_of_corners,
    number_of_patches,
    nodes_at_patch,
    corners_at_node,
    coords_of_corner,
    spherical_calcs,    \* calls of _setup_node_spherical_coords so far
    cache_spherical,    \* self._r_of_node, _phi_of_node, _theta_of_node by
                        \* property name, each Unset while not assigned
    rounded_up,         \* the (node, corner) pairs whose zero angle the
                        \* floating-point sort saw as just below 2 pi
    nudged,             \* the level it gave the angle of the (node, corner)
                        \* pairs whose angles are exactly equal
    strayed,            \* the place it gave the angle of the (node, corner)
                        \* pairs whose angle is rounding noise
    number_of_faces,
    corners_at_face,
    length_of_face,
    number_of_cells,
    area_of_cell,
    cache_cell_at_node, \* self._cell_at_node, Unset while not assigned
    cache_face_at_link, \* self._face_at_link, Unset while not assigned
    cache_area_of_patch, \* self._area_of_patch, Unset while not assigned
    property_calcs,     \* np.arange computations so far, by property name
    returned,           \* what the last property access returned, and
                        \* whether the try branch returned it (stored)
    writes,             \* per index table, the assignments to each slot since
                        \* the table was allocated
    twin,               \* a second object that __init__ builds from the
                        \* same ico.vertices and ico.faces: its builder
                        \* position, its attributes, and the way its
                        \* angles rounded (none before it has sorted)
    status_at_link,     \* grid.status_at_link of the advection grid
    vel,                \* grid.at_link["advection__velocity"] (self._vel)
    solver,             \* "none", or "constructed": an AdvectionSolverTVD exists
    advection_direction_is_steady,
    upwind_link_at_link,    \* self._upwind_link_at_link, Unset before assigned
    upwind_calcs,       \* the calls of find_upwind_link_at_link so far
    rate_calls,         \* the calls of calc_rate_of_change_at_nodes so far
    field_writes,       \* the assignments to advection__flux and to the
                        \* advected field so far
    last_call           \* the method of the solver called last

inputVars == <<ico_vertices, ico_faces>>

nodeVars == <<number_of_nodes, coords_of_node>>

linkVars == <<links, nodes_at_link, links_at_node, link_dirs_at_node,
              number_of_links, length_of_link>>

patchVars == <<number_of_corners, number_of_patches, nodes_at_patch,
               corners_at_node, coords_of_corner, spherical_calcs,
               cache_spherical, rounded_up, nudged, strayed>>

faceVars == <<number_of_faces, corners_at_face, length_of_face>>

cellVars == <<number_of_cells, area_of_cell>>

cacheVars == <<cache_cell_at_node, cache_face_at_link, cache_area_of_patch,
               property_calcs, returned>>

\* The index tables.
IndexTables == {"nodes_at_link", "links_at_node", "link_dirs_at_node",
                "nodes_at_patch", "corners_at_node", "corners_at_face"}

\* The first object, and both.
firstBuild == <<pc, err, nodeVars, linkVars, patchVars, faceVars, cellVars,
                cacheVars, writes>>

graphVars == <<inputVars, firstBuild, twin>>

solverVars == <<status_at_link, vel, solver, advection_direction_is_steady,
                upwind_link_at_link, upwind_calcs, rate_calls, field_writes,
                last_call>>

vars == <<graphVars, solverVars>>

\* An attribute not assigned yet: reading it is an AttributeError.  Not an
\* array (an array is a function on 0..n-1), so that an attribute assigned
\* an empty array is not taken for a missing one.
Unset == [attribute \in {-1} |-> -1]

\* Variant: np.empty in place of np.zeros: the table starts with what the
\* memory held, which changes with every builder run before
ZerosLeftUninitialized(n, w) ==
    LET ran(p) == CASE p = "setup_nodes" -> 0
                    [] p = "setup_links" -> 1
                    [] p = "setup_patches_and_corners" -> 2
                    [] p = "setup_faces" -> 3
                    [] p = "setup_cells" -> 4
                    [] OTHER -> 5
    IN  Full(n, w, ran(pc) + ran(twin.pc))

\* np.zeros((n, w), dtype=int): a fresh table, every slot 0.
Zeros(n, w) == Full(n, w, 0)

\* The three properties _setup_node_spherical_coords fills.
SphericalProps == {"r_of_node", "phi_of_node", "theta_of_node"}

\* None of the three assigned yet.
SphericalUnset == [prop \in SphericalProps |-> Unset]

\* cartesian_to_spherical(x_of_node, y_of_node, z_of_node): three arrays, an
\* entry of each a function of its node's coordinates.
cartesian_to_spherical(con) ==
    [prop \in SphericalProps |-> [n \in DOMAIN con |-> <<prop, con[n]>>]]

\* No attribute of the graph assigned.
NoAttributes ==
    /\ err = "none"
    /\ number_of_nodes = 0 /\ coords_of_node = Unset
    /\ links = Unset /\ nodes_at_link = Unset /\ links_at_node = Unset
    /\ link_dirs_at_node = Unset /\ number_of_links = 0
    /\ length_of_link = Unset
    /\ number_of_corners = 0 /\ number_of_patches = 0
    /\ nodes_at_patch = Unset /\ corners_at_node = Unset
    /\ coords_of_corner = Unset /\ spherical_calcs = 0
    /\ cache_spherical = SphericalUnset
    /\ rounded_up = {} /\ nudged = <<>> /\ strayed = <<>>
    /\ number_of_faces = 0 /\ corners_at_face = Unset /\ length_of_face = Unset
    /\ number_of_cells = 0 /\ area_of_cell = Unset
    /\ cache_cell_at_node = Unset /\ cache_face_at_link = Unset
    /\ cache_area_of_patch = Unset
    /\ property_calcs = [cell_at_node |-> 0, face_at_link |-> 0]
    /\ returned = [prop |-> "none", value |-> Unset, raised |-> "none",
                   stored |-> FALSE]
    /\ writes = [t \in IndexTables |-> <<>>]
    /\ twin = [pc |-> "setup_nodes", err |-> "none",
               number_of_nodes |-> 0, coords_of_node |-> Unset,
               number_of_links |-> 0, nodes_at_link |-> Unset,
               links_at_node |-> Unset, link_dirs_at_node |-> Unset,
               number_of_corners |-> 0, nodes_at_patch |-> Unset,
               corners_at_node |-> Unset, coords_of_corner |-> Unset,
               rounding |-> {}, corners_at_face |-> Unset]

\* No advection grid and no solver.
NoSolver ==
    /\ status_at_link = Unset /\ vel = Unset
    /\ solver = "none"
    /\ advection_direction_is_steady = FALSE
    /\ upwind_link_at_link = Unset
    /\ upwind_calcs = 0 /\ rate_calls = 0
    /\ field_writes = [flux |-> 0, scalar |-> 0]
    /\ last_call = "none"

\* The object as __init__ finds it: inputs chosen, no attribute assigned.
Init ==
    /\ \E inp \in Inputs : ico_vertices = inp[1] /\ ico_faces = inp[2]
    /\ pc = "setup_nodes"
    /\ NoAttributes
    /\ NoSolver

\* ------------------------------------------------------------- setup_nodes

\* setup_nodes: copy the vertex list into coords_of_node.
SetupNodes ==
    /\ pc = "setup_nodes"
    /\ number_of_nodes' = ALen(ico_vertices)
    /\ coords_of_node' = [i \in Range(ALen(ico_vertices)) |-> ico_vertices[i]]
    /\ pc' = "setup_links"
    /\ UNCHANGED <<err, inputVars, solverVars, linkVars, patchVars, faceVars, cellVars,
                   cacheVars, writes, twin>>

\* ------------------------------------------------------------- setup_links

\* Variant: a key that keeps the order of the pair
LinkKeyOrdered(p1, p2) == <<p1, p2>>

\* add_link's key, (min(p1, p2) << 32) + max(p1, p2): the pair of its two
\* 32-bit halves (one key per unordered pair, for indices below 2^32).
LinkKey(p1, p2) == <<Min2(p1, p2), Max2(p1, p2)>>

\* add_link: register (p1, p2) under its key unless the key is there.
add_link(ls, p1, p2) ==
    IF \E n \in 1..Len(ls) : ls[n].key = LinkKey(p1, p2)
    THEN ls
    ELSE Append(ls, [key |-> LinkKey(p1, p2), val |-> <<p1, p2>>])

\* Variant: the three edges registered starting from the second vertex
AddLinksOfFaceRotated(ls, icoface) ==
    add_link(add_link(add_link(ls, icoface[1], icoface[2]),
                      icoface[2], icoface[0]),
             icoface[0], icoface[1])

\* The body of the first loop of setup_links: the three edges of a triangle.
AddLinksOfFace(ls, icoface) ==
    add_link(add_link(add_link(ls, icoface[0], icoface[1]),
                      icoface[1], icoface[2]),
             icoface[2], icoface[0])

\* The first loop of setup_links, over the triangles lo..hi-1 in list
\* order.  Every loop of the model runs its first half, then its second
\* half on the result (the test on the first half's result has it computed
\* before the second half starts, which keeps the evaluation shallow).
RECURSIVE AddLinksOfFaces(_, _, _, _)
AddLinksOfFaces(ls, faces, lo, hi) ==
    IF hi <= lo THEN ls
    ELSE IF hi = lo + 1 THEN AddLinksOfFace(ls, faces[lo])
    ELSE LET first == AddLinksOfFaces(ls, faces, lo, (lo + hi) \div 2)
         IN  IF Len(first) >= 0
             THEN AddLinksOfFaces(first, faces, (lo + hi) \div 2, hi)
             ELSE first

\* Variant: the direction sign is not stored
RecordLinkEndNoDir(st, i, col, node, dir, N) ==
    IF st.err # "none" THEN st
    ELSE IF ~InRange(i, ALen(st.nodes_at_link))
    THEN [st EXCEPT !.err = "IndexError"]
    ELSE LET w == [st EXCEPT !.nodes_at_link[i][col] = node,
                             !.w_nodes_at_link[i][col] = @ + 1]
         IN  IF ~InRange(node, N) THEN [w EXCEPT !.err = "IndexError"]
             ELSE LET nd == Idx(node, N)
                      slot == w.link_at_node_index[nd]
                  IN  IF ~InRange(slot, Capacity)
                      THEN [w EXCEPT !.err = "IndexError"]
                      ELSE [w EXCEPT !.links_at_node[nd][slot] = i,
                                     !.w_links_at_node[nd][slot] = @ + 1,
                                     !.link_at_node_index[nd] = @ + 1]

\* Variant: a link beyond the last allocated row is dropped
RecordLinkEndDropping(st, i, col, node, dir, N) ==
    IF st.err # "none" THEN st
    ELSE IF ~InRange(i, ALen(st.nodes_at_link)) THEN st
    ELSE LET w == [st EXCEPT !.nodes_at_link[i][col] = node,
                             !.w_nodes_at_link[i][col] = @ + 1]
         IN  IF ~InRange(node, N) THEN [w EXCEPT !.err = "IndexError"]
             ELSE LET nd == Idx(node, N)
                      slot == w.link_at_node_index[nd]
                  IN  IF ~InRange(slot, Capacity)
                      THEN [w EXCEPT !.err = "IndexError"]
                      ELSE [w EXCEPT !.links_at_node[nd][slot] = i,
                                     !.w_links_at_node[nd][slot] = @ + 1,
                                     !.link_dirs_at_node[nd][slot] = dir,
                                     !.w_link_dirs_at_node[nd][slot] = @ + 1,
                                     !.link_at_node_index[nd] = @ + 1]

\* One end of link i in the second loop: nodes_at_link[i, col] = node, then
\* the link and its direction at the node's next free slot.  The w_ fields
\* count the assignments to each slot of a table since its allocation.
RecordLinkEnd(st, i, col, node, dir, N) ==
    IF st.err # "none" THEN st
    ELSE IF ~InRange(i, ALen(st.nodes_at_link))
    THEN [st EXCEPT !.err = "IndexError"]
    ELSE LET w == [st EXCEPT !.nodes_at_link[i][col] = node,
                             !.w_nodes_at_link[i][col] = @ + 1]
         IN  IF ~InRange(node, N) THEN [w EXCEPT !.err = "IndexError"]
             ELSE LET nd == Idx(node, N)
                      slot == w.link_at_node_index[nd]
                  IN  IF ~InRange(slot, Capacity)
                      THEN [w EXCEPT !.err = "IndexError"]
                      ELSE [w EXCEPT !.links_at_node[nd][slot] = i,
                                     !.w_links_at_node[nd][slot] = @ + 1,
                                     !.link_dirs_at_node[nd][slot] = dir,
                                     !.w_link_dirs_at_node[nd][slot] = @ + 1,
                                     !.link_at_node_index[nd] = @ + 1]

\* The body of the second loop of setup_links, for the i-th of
\* self.links.values(): tail, head, length.
LinkStep(st, ls, i, N) ==
    LET tail == ls[i + 1].val[1]
        head == ls[i + 1].val[2]
        b == RecordLinkEnd(RecordLinkEnd(st, i, 0, tail, -1, N),
                           i, 1, head, 1, N)
    IN  IF b.err # "none" THEN b
        ELSE [b EXCEPT !.length_of_link[i] = <<Idx(tail, N), Idx(head, N)>>]

\* The second loop of setup_links, over the links lo..hi-1.
RECURSIVE LinkLoop(_, _, _, _, _)
LinkLoop(st, ls, lo, hi, N) ==
    IF hi <= lo THEN st
    ELSE IF hi = lo + 1 THEN LinkStep(st, ls, lo, N)
    ELSE LET first == LinkLoop(st, ls, lo, (lo + hi) \div 2, N)
         IN  IF first.err # "none" THEN first
             ELSE LinkLoop(first, ls, (lo + hi) \div 2, hi, N)

\* setup_links as a whole.
setup_links(faces, N) ==
    LET ls == AddLinksOfFaces(<<>>, faces, 0, ALen(faces))
        st0 == [nodes_at_link |-> Zeros((3 * ALen(faces)) \div 2, 2),
                links_at_node |-> Full(N, Capacity, Sentinel),
                link_dirs_at_node |-> Zeros(N, Capacity),
                link_at_node_index |-> [n \in Range(N) |-> 0],
                length_of_link |-> [i \in Range(Len(ls)) |-> <<>>],
                w_nodes_at_link |-> Full((3 * ALen(faces)) \div 2, 2, 0),
                w_links_at_node |-> Full(N, Capacity, 0),
                w_link_dirs_at_node |-> Full(N, Capacity, 0),
                err |-> "none"]
        st == LinkLoop(st0, ls, 0, Len(ls), N)
    IN  [links |-> ls, number_of_links |-> Len(ls),
         nodes_at_link |-> st.nodes_at_link,
         links_at_node |-> st.links_at_node,
         link_dirs_at_node |-> st.link_dirs_at_node,
         length_of_link |-> st.length_of_link,
         w_nodes_at_link |-> st.w_nodes_at_link,
         w_links_at_node |-> st.w_links_at_node,
         w_link_dirs_at_node |-> st.w_link_dirs_at_node,
         err |-> st.err]

SetupLinks ==
    /\ pc = "setup_links"
    /\ \E r \in {setup_links(ico_faces, number_of_nodes)} :
           /\ links' = r.links
           /\ number_of_links' = r.number_of_links
           /\ nodes_at_link' = r.nodes_at_link
           /\ links_at_node' = r.links_at_node
           /\ link_dirs_at_node' = r.link_dirs_at_node
           /\ length_of_link' = r.length_of_link
           /\ writes' = [writes EXCEPT
                            !.nodes_at_link = r.w_nodes_at_link,
                            !.links_at_node = r.w_links_at_node,
                            !.link_dirs_at_node = r.w_link_dirs_at_node]
           /\ err' = r.err
           /\ pc' = IF r.err = "none" THEN "setup_patches_and_corners"
                    ELSE "raised"
    /\ UNCHANGED <<inputVars, solverVars, nodeVars, patchVars, faceVars, cellVars,
                   cacheVars, twin>>

\* ----------------------------------------------- setup_patches_and_corners

\* Variant: the node's next free slot does not move on
RecordCornerAtNodeSameSlot(st, p, node, N) ==
    IF st.err # "none" THEN st
    ELSE IF ~InRange(node, N) THEN [st EXCEPT !.err = "IndexError"]
    ELSE LET nd == Idx(node, N)
             slot == st.corners_at_node_index[nd]
         IN  IF ~InRange(slot, Capacity) THEN [st EXCEPT !.err = "IndexError"]
             ELSE [st EXCEPT !.corners_at_node[nd][slot] = p,
                             !.w_corners_at_node[nd][slot] = @ + 1]

\* corners_at_node[node, corners_at_node_index[node]] = p, and the node's
\* next free slot moves on.
RecordCornerAtNode(st, p, node, N) ==
    IF st.err # "none" THEN st
    ELSE IF ~InRange(node, N) THEN [st EXCEPT !.err = "IndexError"]
    ELSE LET nd == Idx(node, N)
             slot == st.corners_at_node_index[nd]
         IN  IF ~InRange(slot, Capacity) THEN [st EXCEPT !.err = "IndexError"]
             ELSE [st EXCEPT !.corners_at_node[nd][slot] = p,
                             !.w_corners_at_node[nd][slot] = @ + 1,
                             !.corners_at_node_index[nd] = @ + 1]

\* The body of the loop over patches: nodes_at_patch[p, :] = ico_faces[p],
\* then patch p appended to the corner row of each of its three nodes.
PatchStep(st, faces, p, N) ==
    IF st.err # "none" THEN st
    ELSE RecordCornerAtNode(
             RecordCornerAtNode(
                 RecordCornerAtNode(
                     [st EXCEPT !.nodes_at_patch[p] = faces[p],
                                !.w_nodes_at_patch[p] =
                                    [j \in Range(3) |-> @[j] + 1]],
                     p, faces[p][0], N),
                 p, faces[p][1], N),
             p, faces[p][2], N)

\* The loop over the patches lo..hi-1.
RECURSIVE PatchLoop(_, _, _, _, _)
PatchLoop(st, faces, lo, hi, N) ==
    IF hi <= lo THEN st
    ELSE IF hi = lo + 1 THEN PatchStep(st, faces, lo, N)
    ELSE LET first == PatchLoop(st, faces, lo, (lo + hi) \div 2, N)
         IN  IF first.err # "none" THEN first
             ELSE PatchLoop(first, faces, (lo + hi) \div 2, hi, N)

\* set_coords_of_corner: the normal cross(p1 - p0, p2 - p0) of every patch,
\* scaled to the radius (the direction is kept; a zero normal becomes NaN).
set_coords_of_corner(nap, con) ==
    [p \in DOMAIN nap |->
        LET N == ALen(con)
            p0 == con[Idx(nap[p][0], N)]
            p1 == con[Idx(nap[p][1], N)]
            p2 == con[Idx(nap[p][2], N)]
        IN  Cross3(Sub3(p1, p0), Sub3(p2, p0))]

\* The corner c seen from node n after rotate_zy(c, -phi, -theta): with
\* rho^2 = nx^2 + ny^2 and r = |n|,
\*   rcy = (cy nx - cx ny) / rho
\*   rcx = ((cx nx + cy ny) nz - cz rho^2) / (rho r).
\* LocalXY is <<rcx rho r, rcy rho>>: the angle atan2(rcy, rcx) is that of
\* the point (LocalXY[1], r LocalXY[2]), r > 0.  For a node on the z axis
\* (rho = 0) phi = arctan2(0, 0) = 0 and theta is 0 or pi: the rotation
\* leaves (cx, cy) for nz > 0 and gives (-cx, cy) for nz < 0.
LocalXY(c, n) ==
    IF n[1] = Num(0) /\ n[2] = Num(0)
    THEN <<IF Sign(n[3]) < 0 THEN Sub(Num(0), c[1]) ELSE c[1], c[2]>>
    ELSE <<Sub(Mul(Add(Mul(c[1], n[1]), Mul(c[2], n[2])), n[3]),
               Mul(c[3], Add(Mul(n[1], n[1]), Mul(n[2], n[2])))),
           Sub(Mul(c[2], n[1]), Mul(c[1], n[2]))>>

\* An angle that is exactly 0 (rcy = 0, rcx > 0): the floating-point
\* rounding of rcy decides the result; rounded to a tiny negative number,
\* ang < 0 holds and the angle becomes 2 pi - tiny.  A node at the origin
\* has no direction (theta = arccos(0 / 0)): its angles are NaN, none is 0.
IsZeroAngle(c, n) ==
    /\ ~IsNaN(c)
    /\ n # Point(0, 0, 0)
    /\ Sign(LocalXY(c, n)[2]) = 0
    /\ Sign(LocalXY(c, n)[1]) > 0

\* A corner whose normal is parallel to the node (the patch lies in a
\* plane perpendicular to the node's position vector) has rcx = rcy = 0
\* exactly: the floating-point rcx and rcy are rounding noise and ang is
\* the arctan2 of the noise, anywhere in [0, 2 pi).  So is every corner of
\* a node at the origin, where r = 0 and theta = arccos(z / r) is undefined.
IsStray(c, n) ==
    /\ ~IsNaN(c)
    /\ \/ n = Point(0, 0, 0)
       \/ LocalXY(c, n) = <<Num(0), Num(0)>>

\* Where ang = arctan2(rcy, rcx), brought into [0, 2 pi), lies:
\* 0: ang = 0, 1: 0 < ang < pi, 2: ang = pi, 3: pi < ang < 2 pi,
\* 4: a zero angle rounded to just below 2 pi, 5: NaN.  The rounding
\* gives wrapped, for an angle of exactly zero, and noise, the sector of
\* the arctan2 of rounding noise (rcx = rcy = 0 exactly).
SectorOf(xy, nan, wrapped, noise) ==
    IF nan THEN 5
    ELSE IF Sign(xy[2]) > 0 THEN 1
    ELSE IF Sign(xy[2]) < 0 THEN 3
    ELSE IF Sign(xy[1]) < 0 THEN 2
    ELSE IF Sign(xy[1]) = 0 THEN noise
    ELSE IF wrapped THEN 4 ELSE 0

AngleSector(c, n, wrapped, noise) ==
    IF ~IsNaN(c) /\ n = Point(0, 0, 0) THEN noise
    ELSE SectorOf(LocalXY(c, n), IsNaN(c), wrapped, noise)

\* The sectors rounding noise can fall in; with the node at the origin
\* the spherical coordinates are undefined and the angle may be NaN.
NoiseSectors(n) == IF n = Point(0, 0, 0) THEN 0..5 ELSE 0..4

\* The direction a sector starts at.
StartOf(s) == IF s \in {2, 3} THEN <<Num(-1), Num(0)>>
              ELSE <<Num(1), Num(0)>>

\* Corner p of the node is one that the rounding named by the set of
\* (node, corner) pairs touches.  Corners of equal coordinates go through
\* the same floating-point operations: they round alike.
Rounded(pairs, node, p, coc) ==
    \E nc \in pairs : nc[1] = node /\ coc[nc[2]] = coc[p]

\* The corners of a row, and the first of them with the coordinates of p.
RowCorners(row) == {row[k] : k \in DOMAIN row} \ {Sentinel}

Rep(row, coc, p) ==
    CHOOSE q \in RowCorners(row) :
        /\ coc[q] = coc[p]
        /\ \A q2 \in RowCorners(row) : coc[q2] = coc[p] => q <= q2

\* The corners of a row whose angle the geometry gives.
Anchors(row, coc, n) ==
    {q \in RowCorners(row) : ~IsNaN(coc[q]) /\ ~IsStray(coc[q], n)}

\* Where the rounding can put the angle of a stray corner, <<s, q, side>>:
\* in sector s; within the sectors 1 and 3 at the angle of a corner q of
\* the row that lies there (side 0), between that angle and the next
\* greater one (side 1), or below every angle of the sector (q = -1).
Places(row, coc, n) ==
    {<<s, -1, IF s \in {1, 3} THEN 1 ELSE 0>> : s \in NoiseSectors(n)}
    \cup {<<SectorOf(LocalXY(coc[q], n), FALSE, FALSE, 0), q, side>> :
              q \in {a \in Anchors(row, coc, n) :
                        Sign(LocalXY(coc[a], n)[2]) # 0},
              side \in {0, 1}}

\* The place of the angle of corner p of the row: the sector s, within
\* the sectors 1 and 3 the rotated corner xy of the corner whose angle it
\* has or follows, and the side (0: at that angle, 1: above it).
PlaceKey(p, row, coc, n, node, wrap, stray) ==
    LET xy == LocalXY(coc[p], n)
    IN  IF IsNaN(coc[p]) THEN [s |-> 5, xy |-> <<>>, side |-> 0]
        ELSE IF n = Point(0, 0, 0) \/ xy = <<Num(0), Num(0)>>
        THEN LET pl == stray[<<node, Rep(row, coc, p)>>]
             IN  [s |-> IF n = Point(0, 0, 0) THEN pl[1]
                        ELSE SectorOf(xy, FALSE, FALSE, pl[1]),
                  xy |-> IF pl[2] = -1 THEN StartOf(pl[1])
                         ELSE LocalXY(coc[pl[2]], n),
                  side |-> pl[3]]
        ELSE [s |-> SectorOf(xy, FALSE, Rounded(wrap, node, p, coc), 0),
              xy |-> xy, side |-> 0]

\* A slot of the row that holds corner p.
SlotOf(row, p) == CHOOSE k \in DOMAIN row : row[k] = p

\* The places of the corners in the slots 0..k-1 of the node's row, each
\* computed once; <<>> for an empty slot.
RECURSIVE PlaceKeys(_, _, _, _, _, _, _)
PlaceKeys(row, coc, n, node, wrap, stray, k) ==
    IF k = 0 THEN <<>>
    ELSE Append(PlaceKeys(row, coc, n, node, wrap, stray, k - 1),
                IF row[k - 1] # Sentinel
                THEN PlaceKey(row[k - 1], row, coc, n, node, wrap, stray)
                ELSE <<>>)

\* The angle at place a is exactly below the angle at place b (> 0), equal
\* to it (= 0) or above it: rcx, rcy of a turn counterclockwise into those
\* of b.
Turn(a, b) == Sign(Sub(Mul(a.xy[1], b.xy[2]), Mul(b.xy[1], a.xy[2])))

\* Two places of the same exact angle: the floating-point angles of two
\* corners of different coordinates there may come out equal, or either
\* one above the other.
SamePlace(a, b) ==
    /\ a.s = b.s
    /\ a.s # 5
    /\ a.side = b.side
    /\ a.s \in {1, 3} => Turn(a, b) = 0

\* The level of corner p of the row: it orders the corners of one place;
\* rnd.nudge gives it for the corners that share their place with a
\* corner of other coordinates.
LevelOf(p, row, coc, node, nudge) ==
    IF nudge = <<>> THEN 0
    ELSE LET x == <<node, Rep(row, coc, p)>>
         IN  IF x \in DOMAIN nudge THEN nudge[x] ELSE 0

\* The place and the level of the corners in the slots 0..k-1 of the
\* node's row, each computed once; <<>> for an empty slot.
RECURSIVE CornerKeys(_, _, _, _, _, _)
CornerKeys(places, row, coc, node, nudge, k) ==
    IF k = 0 THEN <<>>
    ELSE Append(CornerKeys(places, row, coc, node, nudge, k - 1),
                IF places[k] = <<>> THEN <<>>
                ELSE [place |-> places[k],
                      level |-> LevelOf(row[k - 1], row, coc, node, nudge)])

\* What the comparison of two angles of a node's row depends on: the
\* place and level (key) of the corner in every slot of the row, from the
\* corners' coordinates, the node and the rounding (wrap, stray, nudge).
AngleContext(row, coc, n, node, rnd) ==
    [node |-> node, row |-> row,
     key |-> CornerKeys(PlaceKeys(row, coc, n, node, rnd.wrap, rnd.stray,
                                  ALen(row)),
                        row, coc, node, rnd.nudge, ALen(row))]

\* ang[i] < ang[j] as np.argsort compares them (NaN sorts last), from the
\* keys k1 and k2 of the corners in the slots i and j.
KeyLess(k1, k2) ==
    LET a == k1.place
        b == k2.place
        turn == IF a.s \in {1, 3} THEN Turn(a, b) ELSE 0
    IN  IF a.s # b.s THEN a.s < b.s
        ELSE IF a.s = 5 THEN FALSE
        ELSE \/ turn > 0
             \/ /\ turn = 0
                /\ \/ a.side < b.side
                   \/ /\ a.side = b.side
                      /\ k1.level < k2.level

\* ang[i] < ang[j] for the corners p1 and p2 of a node.
AngleLess(p1, p2, g) ==
    KeyLess(g.key[SlotOf(g.row, p1) + 1], g.key[SlotOf(g.row, p2) + 1])

\* np.argsort on a short array is an insertion sort: position x goes behind
\* every position whose angle is not greater.
RECURSIVE InsertByAngle(_, _, _, _)
InsertByAngle(sorted, x, row, g) ==
    IF sorted = <<>> THEN <<x>>
    ELSE LET last == sorted[Len(sorted)]
         IN  IF KeyLess(g.key[x + 1], g.key[last + 1])
             THEN Append(InsertByAngle(SubSeq(sorted, 1, Len(sorted) - 1),
                                       x, row, g), last)
             ELSE Append(sorted, x)

\* Variant: the positions are left in the order of collection
ArgSortCollectionOrder(row, k, g) == [i \in 1..k |-> i - 1]

\* idx = np.argsort(ang) over the positions 0..k-1 of the row.
RECURSIVE ArgSort(_, _, _)
ArgSort(row, k, g) ==
    IF k = 0 THEN <<>>
    ELSE InsertByAngle(ArgSort(row, k - 1, g), k - 1, row, g)

\* Variant: the sorted positions are stored in place of the corners
sort_corners_ccw_storing_positions(can, coc, con, rnd) ==
    [node \in DOMAIN can |->
        LET row == can[node]
            nc == CountNonSentinel(row)
            idx == ArgSort(row, nc, AngleContext(row, coc, con[node], node,
                                                  rnd))
        IN  [k \in DOMAIN row |-> IF k < nc THEN idx[k + 1] ELSE row[k]]]

\* sort_corners_ccw: each node's first nc corners reordered by angle.
sort_corners_ccw(can, coc, con, rnd) ==
    [node \in DOMAIN can |->
        LET row == can[node]
            nc == CountNonSentinel(row)
            idx == ArgSort(row, nc, AngleContext(row, coc, con[node], node,
                                                  rnd))
        IN  [k \in DOMAIN row |-> IF k < nc THEN row[idx[k + 1]] ELSE row[k]]]

\* Variant: the sort assigns the whole row, padding included
sort_corners_ccw_writes_whole_row(can, w) ==
    [node \in DOMAIN can |-> [k \in DOMAIN can[node] |-> w[node][k] + 1]]

\* The slots sort_corners_ccw assigns: corners_at_node[node, :nc] = ... is
\* one more assignment to each of the first nc slots of every row.
sort_corners_ccw_writes(can, w) ==
    [node \in DOMAIN can |->
        [k \in DOMAIN can[node] |->
            w[node][k] + (IF k < CountNonSentinel(can[node]) THEN 1 ELSE 0)]]

\* The tables of the patch loop and the corner coordinates.
PatchTables(faces, N, con) ==
    LET st0 == [nodes_at_patch |-> Zeros(ALen(faces), 3),
                corners_at_node |-> Full(N, Capacity, Sentinel),
                corners_at_node_index |-> [n \in Range(N) |-> 0],
                w_nodes_at_patch |-> Full(ALen(faces), 3, 0),
                w_corners_at_node |-> Full(N, Capacity, 0),
                err |-> "none"]
        st == PatchLoop(st0, faces, 0, ALen(faces), N)
    IN  [nodes_at_patch |-> st.nodes_at_patch,
         corners_at_node |-> st.corners_at_node,
         w_nodes_at_patch |-> st.w_nodes_at_patch,
         w_corners_at_node |-> st.w_corners_at_node,
         coords_of_corner |-> IF st.err = "none"
                              THEN set_coords_of_corner(st.nodes_at_patch, con)
                              ELSE Unset,
         err |-> st.err]

\* The (node, corner) pairs whose angle is exactly 0: each may round either
\* way.
ZeroAnglesIn(t, N, con) ==
    IF t.err # "none" THEN {}
    ELSE {nc \in Range(N) \X DOMAIN t.coords_of_corner :
             /\ \E k \in Range(Capacity) :
                    t.corners_at_node[nc[1]][k] = nc[2]
             /\ IsZeroAngle(t.coords_of_corner[nc[2]], con[nc[1]])}

ZeroAngles(faces, N, con) == ZeroAnglesIn(PatchTables(faces, N, con), N, con)

\* The (node, corner) pairs whose angle is rounding noise, one pair for
\* the corners of a row that have the same coordinates.
StraysIn(t, N, con) ==
    IF t.err # "none" THEN {}
    ELSE {nc \in Range(N) \X DOMAIN t.coords_of_corner :
             /\ nc[2] \in RowCorners(t.corners_at_node[nc[1]])
             /\ nc[2] = Rep(t.corners_at_node[nc[1]], t.coords_of_corner, nc[2])
             /\ IsStray(t.coords_of_corner[nc[2]], con[nc[1]])}

\* The ways the rounding can place the stray corners.
StrayChoices(t, N, con) ==
    LET D == StraysIn(t, N, con)
        all == (0..5) \X ({-1} \cup DOMAIN t.coords_of_corner) \X {0, 1}
    IN  {f \in [D -> all] :
            \A nc \in D : f[nc] \in Places(t.corners_at_node[nc[1]],
                                          t.coords_of_corner, con[nc[1]])}

\* The (node, corner) pairs whose place is that of another corner of the
\* node with other coordinates, one pair for the corners of a row that
\* have the same coordinates; share: the pairs of them that share a place.
SharedPlacesAt(node, row, coc, n, wrap, stray) ==
    LET keys == PlaceKeys(row, coc, n, node, wrap, stray, ALen(row))
        reps == {p \in RowCorners(row) : p = Rep(row, coc, p)}
    IN  {<<<<node, pq[1]>>, <<node, pq[2]>>>> :
            pq \in {pq \in reps \X reps :
                       /\ pq[1] # pq[2]
                       /\ SamePlace(keys[SlotOf(row, pq[1]) + 1],
                                    keys[SlotOf(row, pq[2]) + 1])}}

SharedPlaces(t, N, con, wrap, stray) ==
    IF t.err # "none" THEN {}
    ELSE UNION {SharedPlacesAt(node, t.corners_at_node[node],
                               t.coords_of_corner, con[node], wrap, stray) :
                node \in Range(N)}

TiedAnglesIn(t, N, con, wrap, stray) ==
    {xy[1] : xy \in SharedPlaces(t, N, con, wrap, stray)}

\* The ways the rounding can order the corners that share a place: a level
\* for each, the levels of the corners of one place being 0, 1, ... with
\* none left out (equal levels are equal floating-point angles).
Levels(t, N, con, wrap, stray) ==
    LET share == SharedPlaces(t, N, con, wrap, stray)
        D == {xy[1] : xy \in share}
        size(x) == 1 + Cardinality({xy \in share : xy[1] = x})
        K == IF D = {} THEN 1 ELSE CHOOSE m \in {size(x) : x \in D} :
                                       \A x \in D : size(x) <= m
    IN  {f \in [D -> 0..(K - 1)] :
            \A x \in D :
                \/ f[x] = 0
                \/ \E xy \in share : xy[1] = x /\ f[xy[2]] = f[x] - 1}

\* The ways the floating-point angles of a mesh can round: wrap, the zero
\* angles that come out just below 2 pi; stray, the places of the angles
\* that are rounding noise; nudge, the order of the angles that are
\* exactly equal.
RoundingsIn(t, N, con) ==
    LET strays == StrayChoices(t, N, con)
        \* no stray corner and no two corners of one exact angle: there is
        \* no order left to the rounding, whichever zero angles wrap
        settled == /\ StraysIn(t, N, con) = {}
                   /\ SharedPlaces(t, N, con, {}, <<>>) = {}
    IN  UNION {UNION {{[wrap |-> w, stray |-> f, nudge |-> d] :
                          d \in IF settled THEN {<<>>}
                                ELSE Levels(t, N, con, w, f)} :
                      f \in strays} :
               w \in SUBSET ZeroAnglesIn(t, N, con)}

Roundings(faces, N, con) == RoundingsIn(PatchTables(faces, N, con), N, con)

\* setup_patches_and_corners as a whole; rnd: the way the angles round.
setup_patches_and_corners(faces, N, con, rnd) ==
    LET t == PatchTables(faces, N, con)
    IN  [number_of_corners |-> ALen(faces),
         number_of_patches |-> ALen(faces),
         nodes_at_patch |-> t.nodes_at_patch,
         corners_at_node |-> IF t.err = "none"
                             THEN sort_corners_ccw(t.corners_at_node,
                                      t.coords_of_corner, con, rnd)
                             ELSE t.corners_at_node,
         coords_of_corner |-> t.coords_of_corner,
         w_nodes_at_patch |-> t.w_nodes_at_patch,
         w_corners_at_node |-> IF t.err = "none"
                               THEN sort_corners_ccw_writes(t.corners_at_node,
                                        t.w_corners_at_node)
                               ELSE t.w_corners_at_node,
         \* sort_corners_ccw reads phi_of_node: the first read fills the
         \* three spherical-coordinate attributes
         spherical_calcs |-> IF t.err = "none" /\ N > 0 THEN 1 ELSE 0,
         spherical |-> IF t.err = "none" /\ N > 0
                       THEN cartesian_to_spherical(con) ELSE SphericalUnset,
         err |-> t.err]

\* The ways the angles of the object under construction can round.  The
\* floating-point operations are functions of their operands: on the
\* coordinates on which a second object has sorted its corners already
\* they round as they did there.
RoundingsOfBuild(faces, N, con, others) ==
    IF others # {} THEN others ELSE Roundings(faces, N, con)

SetupPatchesAndCorners ==
    /\ pc = "setup_patches_and_corners"
    /\ \E rnd \in RoundingsOfBuild(ico_faces, number_of_nodes, coords_of_node,
                                  twin.rounding) :
       \E r \in {setup_patches_and_corners(ico_faces, number_of_nodes,
                                              coords_of_node, rnd)} :
           /\ number_of_corners' = r.number_of_corners
           /\ number_of_patches' = r.number_of_patches
           /\ nodes_at_patch' = r.nodes_at_patch
           /\ corners_at_node' = r.corners_at_node
           /\ coords_of_corner' = r.coords_of_corner
           /\ spherical_calcs' = r.spherical_calcs
           /\ cache_spherical' = r.spherical
           /\ rounded_up' = rnd.wrap
           /\ nudged' = rnd.nudge
           /\ strayed' = rnd.stray
           /\ writes' = [writes EXCEPT
                            !.nodes_at_patch = r.w_nodes_at_patch,
                            !.corners_at_node = r.w_corners_at_node]
           /\ err' = r.err
           /\ pc' = IF r.err = "none" THEN "setup_faces" ELSE "raised"
    /\ UNCHANGED <<inputVars, solverVars, nodeVars, linkVars, faceVars, cellVars,
                   cacheVars, twin>>

\* ------------------------------------------------------------- setup_faces

\* The key of patches_at_node_pair: (min(n1, n2), max(n1, n2)).
NodePairKey(n1, n2) == <<Min2(n1, n2), Max2(n1, n2)>>

\* Variant: the second patch is stored behind the first, unsorted
RegisterPatchEdgeUnsorted(st, i, n1, n2) ==
    LET key == <<Min2(n1, n2), Max2(n1, n2)>>
        d == st.patches_at_node_pair
    IN  IF st.err # "none" THEN st
        ELSE IF key \notin DOMAIN d
        THEN [st EXCEPT !.patches_at_node_pair =
                  [k \in DOMAIN d \cup {key} |->
                      IF k = key THEN <<i>> ELSE d[k]]]
        ELSE IF Len(d[key]) # 1 THEN [st EXCEPT !.err = "TypeError"]
        ELSE [st EXCEPT !.patches_at_node_pair[key] = <<i, d[key][1]>>]

\* One edge of patch i entered in patches_at_node_pair.  A value is <<i>>
\* (the int i) or <<lo, hi>> (a tuple); min(i, patch1) with patch1 a tuple
\* is a TypeError.
RegisterPatchEdge(st, i, n1, n2) ==
    LET key == NodePairKey(n1, n2)
        d == st.patches_at_node_pair
    IN  IF st.err # "none" THEN st
        ELSE IF key \notin DOMAIN d
        THEN [st EXCEPT !.patches_at_node_pair =
                  [k \in DOMAIN d \cup {key} |->
                      IF k = key THEN <<i>> ELSE d[k]]]
        ELSE IF Len(d[key]) # 1 THEN [st EXCEPT !.err = "TypeError"]
        ELSE [st EXCEPT !.patches_at_node_pair[key] =
                  <<Min2(i, d[key][1]), Max2(i, d[key][1])>>]

\* The body of the first loop of setup_faces: for j in range(3), the edge
\* (nodes_at_patch[i, j - 1], nodes_at_patch[i, j]).
PatchPairStep(st, nap, i) ==
    RegisterPatchEdge(
        RegisterPatchEdge(RegisterPatchEdge(st, i, nap[i][2], nap[i][0]),
                          i, nap[i][0], nap[i][1]),
        i, nap[i][1], nap[i][2])

\* The first loop of setup_faces, over the patches lo..hi-1.
RECURSIVE PatchPairLoop(_, _, _, _)
PatchPairLoop(st, nap, lo, hi) ==
    IF hi <= lo THEN st
    ELSE IF hi = lo + 1 THEN PatchPairStep(st, nap, lo)
    ELSE LET first == PatchPairLoop(st, nap, lo, (lo + hi) \div 2)
         IN  IF first.err # "none" THEN first
             ELSE PatchPairLoop(first, nap, (lo + hi) \div 2, hi)

\* The body of the second loop of setup_faces: the two patches at the
\* link's node pair become the face's corners.  Unpacking an int is a
\* TypeError.
FaceStep(st, nal, face) ==
    LET key == NodePairKey(nal[face][0], nal[face][1])
        d == st.patches_at_node_pair
    IN  IF st.err # "none" THEN st
        ELSE IF key \notin DOMAIN d THEN [st EXCEPT !.err = "KeyError"]
        ELSE IF Len(d[key]) # 2 THEN [st EXCEPT !.err = "TypeError"]
        ELSE [st EXCEPT !.corners_at_face[face] = Arr(d[key]),
                        !.w_corners_at_face[face] = [j \in Range(2) |-> @[j] + 1],
                        !.length_of_face[face] = d[key]]

\* The second loop of setup_faces, over the faces lo..hi-1.
RECURSIVE FaceLoop(_, _, _, _)
FaceLoop(st, nal, lo, hi) ==
    IF hi <= lo THEN st
    ELSE IF hi = lo + 1 THEN FaceStep(st, nal, lo)
    ELSE LET first == FaceLoop(st, nal, lo, (lo + hi) \div 2)
         IN  IF first.err # "none" THEN first
             ELSE FaceLoop(first, nal, (lo + hi) \div 2, hi)

\* setup_faces as a whole.
setup_faces(nap, nal, nlinks, ncorners) ==
    LET st0 == [patches_at_node_pair |-> <<>>,
                corners_at_face |-> Unset,
                length_of_face |-> Unset,
                w_corners_at_face |-> <<>>,
                err |-> "none"]
        st1 == PatchPairLoop(st0, nap, 0, ALen(nap))
        st2 == IF st1.err # "none" THEN st1
               ELSE FaceLoop([st1 EXCEPT
                                 !.corners_at_face = Zeros(nlinks, 2),
                                 !.w_corners_at_face = Full(nlinks, 2, 0),
                                 !.length_of_face =
                                     [f \in Range(nlinks) |-> <<>>]],
                             nal, 0, nlinks)
    IN  [number_of_faces |-> IF st1.err = "none" THEN nlinks ELSE 0,
         corners_at_face |-> st2.corners_at_face,
         length_of_face |-> st2.length_of_face,
         w_corners_at_face |-> st2.w_corners_at_face,
         err |-> st2.err]

SetupFaces ==
    /\ pc = "setup_faces"
    /\ \E r \in {setup_faces(nodes_at_patch, nodes_at_link, number_of_links,
                             number_of_corners)} :
           /\ number_of_faces' = r.number_of_faces
           /\ corners_at_face' = r.corners_at_face
           /\ length_of_face' = r.length_of_face
           /\ writes' = [writes EXCEPT !.corners_at_face = r.w_corners_at_face]
           /\ err' = r.err
           /\ pc' = IF r.err = "none" THEN "setup_cells" ELSE "raised"
    /\ UNCHANGED <<inputVars, solverVars, nodeVars, linkVars, patchVars, cellVars,
                   cacheVars, twin>>

\* ------------------------------------------------------------- setup_cells

\* Variant: the polygon degree is read off the first slot alone
NTriFirstSlot(row) == 5 + (IF row[0] > -1 THEN 1 ELSE 0)

\* ntri = 5 + int(np.amin(corners_at_node[cell]) > -1)
NTri(row) == 5 + (IF AMin(row) > -1 THEN 1 ELSE 0)

\* setup_cells: the area of the triangle (node, first corner, second
\* corner), ntri times.  A sentinel in slot 0 or 1 indexes coords_of_corner
\* from its end.
setup_cells(N, can, ncorners) ==
    LET \* coords_of_corner[...] of an index outside [-ncorners, ncorners)
        \* is an IndexError: the loop ends at the first such cell
        bad == {cell \in Range(N) :
                   \/ ~InRange(can[cell][0], ncorners)
                   \/ ~InRange(can[cell][1], ncorners)}
    IN  [number_of_cells |-> N,
         area_of_cell |->
             [cell \in Range(N) |->
                 IF \E b \in bad : b <= cell
                 THEN 0     \* as np.zeros left it
                 ELSE [ntri |-> NTri(can[cell]),
                       tri |-> <<cell, Idx(can[cell][0], ncorners),
                                 Idx(can[cell][1], ncorners)>>]],
         err |-> IF bad = {} THEN "none" ELSE "IndexError"]

\* Variant: setup_cells closes each corner row by writing its first corner
\* over the padding
SetupCellsClosingRows ==
    /\ pc = "setup_cells"
    /\ \E r \in {setup_cells(number_of_nodes, corners_at_node,
                             number_of_corners)} :
           /\ number_of_cells' = r.number_of_cells
           /\ area_of_cell' = r.area_of_cell
           /\ err' = r.err
           /\ pc' = IF r.err = "none" THEN "done" ELSE "raised"
    /\ corners_at_node' =
          [n \in DOMAIN corners_at_node |->
              [k \in DOMAIN corners_at_node[n] |->
                  IF corners_at_node[n][k] = Sentinel
                  THEN corners_at_node[n][0] ELSE corners_at_node[n][k]]]
    /\ UNCHANGED <<inputVars, solverVars, nodeVars, linkVars, faceVars, cacheVars,
                   number_of_corners, number_of_patches, nodes_at_patch,
                   coords_of_corner, spherical_calcs, cache_spherical,
                   rounded_up, nudged, strayed, writes, twin>>

SetupCells ==
    /\ pc = "setup_cells"
    /\ \E r \in {setup_cells(number_of_nodes, corners_at_node,
                             number_of_corners)} :
           /\ number_of_cells' = r.number_of_cells
           /\ area_of_cell' = r.area_of_cell
           /\ err' = r.err
           /\ pc' = IF r.err = "none" THEN "done" ELSE "raised"
    /\ UNCHANGED <<inputVars, solverVars, nodeVars, linkVars, patchVars, faceVars,
                   cacheVars, writes, twin>>

\* ------------------------------------------------------- a second object
\* __init__ of a second DualIcosphereGraph on the same ico.vertices and
\* ico.faces: the same five builders, each one step, at any time before,
\* between or after the builders of the first object.

TwinSetupNodes ==
    /\ twin.pc = "setup_nodes"
    /\ twin' = [twin EXCEPT
                    !.number_of_nodes = ALen(ico_vertices),
                    !.coords_of_node =
                        [i \in Range(ALen(ico_vertices)) |-> ico_vertices[i]],
                    !.pc = "setup_links"]
    /\ UNCHANGED <<inputVars, firstBuild, solverVars>>

TwinSetupLinks ==
    /\ twin.pc = "setup_links"
    /\ \E r \in {setup_links(ico_faces, twin.number_of_nodes)} :
           twin' = [twin EXCEPT
                       !.number_of_links = r.number_of_links,
                       !.nodes_at_link = r.nodes_at_link,
                       !.links_at_node = r.links_at_node,
                       !.link_dirs_at_node = r.link_dirs_at_node,
                       !.err = r.err,
                       !.pc = IF r.err = "none"
                              THEN "setup_patches_and_corners" ELSE "raised"]
    /\ UNCHANGED <<inputVars, firstBuild, solverVars>>

\* How the angles of the first object rounded, once it has sorted its
\* corners (no way before).
RoundingOfFirst ==
    IF nodes_at_patch = Unset THEN {}
    ELSE {[wrap |-> rounded_up, stray |-> strayed, nudge |-> nudged]}

TwinSetupPatchesAndCorners ==
    /\ twin.pc = "setup_patches_and_corners"
    /\ \E rnd \in RoundingsOfBuild(ico_faces, twin.number_of_nodes,
                                  twin.coords_of_node, RoundingOfFirst) :
       \E r \in {setup_patches_and_corners(ico_faces, twin.number_of_nodes,
                                              twin.coords_of_node, rnd)} :
           twin' = [twin EXCEPT
                       !.number_of_corners = r.number_of_corners,
                       !.nodes_at_patch = r.nodes_at_patch,
                       !.corners_at_node = r.corners_at_node,
                       !.coords_of_corner = r.coords_of_corner,
                       !.rounding = {rnd},
                       !.err = r.err,
                       !.pc = IF r.err = "none" THEN "setup_faces"
                              ELSE "raised"]
    /\ UNCHANGED <<inputVars, firstBuild, solverVars>>

TwinSetupFaces ==
    /\ twin.pc = "setup_faces"
    /\ \E r \in {setup_faces(twin.nodes_at_patch, twin.nodes_at_link,
                             twin.number_of_links, twin.number_of_corners)} :
           twin' = [twin EXCEPT
                       !.corners_at_face = r.corners_at_face,
                       !.err = r.err,
                       !.pc = IF r.err = "none" THEN "setup_cells"
                              ELSE "raised"]
    /\ UNCHANGED <<inputVars, firstBuild, solverVars>>

TwinSetupCells ==
    /\ twin.pc = "setup_cells"
    /\ \E r \in {setup_cells(twin.number_of_nodes, twin.corners_at_node,
                             twin.number_of_corners)} :
           twin' = [twin EXCEPT
                       !.err = r.err,
                       !.pc = IF r.err = "none" THEN "done" ELSE "raised"]
    /\ UNCHANGED <<inputVars, firstBuild, solverVars>>

\* --------------------------------------------------- the mapping properties

\* Variant: an arange that counts from 1
ARangeFromOne(n) == [i \in Range(n) |-> i + 1]

\* np.arange(n, dtype=int)
ARange(n) == [i \in Range(n) |-> i]

\* cell_at_node: the stored array, made on the first read.
cell_at_node == IF cache_cell_at_node # Unset THEN cache_cell_at_node
                ELSE ARange(number_of_nodes)

\* face_at_link: the stored array, made on the first read.
face_at_link == IF cache_face_at_link # Unset THEN cache_face_at_link
                ELSE ARange(number_of_links)

\* Variant: the read computes np.arange anew whether or not it is stored
ReadCellAtNodeRecomputing ==
    /\ pc = "done"
    /\ property_calcs.cell_at_node < 3
    /\ \E prop \in {"cell_at_node", "node_at_cell"} :
           returned' = [prop |-> prop, value |-> ARange(number_of_nodes),
                        raised |-> "none", stored |-> FALSE]
    /\ cache_cell_at_node' = ARange(number_of_nodes)
    /\ property_calcs' = [property_calcs EXCEPT !.cell_at_node = @ + 1]
    /\ UNCHANGED <<pc, err, inputVars, solverVars, nodeVars, linkVars, patchVars,
                   faceVars, cellVars, cache_face_at_link,
                   cache_area_of_patch, writes, twin>>

\* A read of cell_at_node, or of node_at_cell, which returns cell_at_node.
ReadCellAtNode ==
    /\ pc = "done"
    /\ \E prop \in {"cell_at_node", "node_at_cell"} :
           returned' = [prop |-> prop, value |-> cell_at_node,
                        raised |-> "none",
                        stored |-> cache_cell_at_node # Unset]
    /\ cache_cell_at_node' = cell_at_node
    /\ property_calcs' =
          IF cache_cell_at_node # Unset THEN property_calcs
          ELSE [property_calcs EXCEPT !.cell_at_node = @ + 1]
    /\ UNCHANGED <<pc, err, inputVars, solverVars, nodeVars, linkVars, patchVars,
                   faceVars, cellVars, cache_face_at_link,
                   cache_area_of_patch, writes, twin>>

\* A read of face_at_link, or of link_at_face, which returns face_at_link.
ReadFaceAtLink ==
    /\ pc = "done"
    /\ \E prop \in {"face_at_link", "link_at_face"} :
           returned' = [prop |-> prop, value |-> face_at_link,
                        raised |-> "none",
                        stored |-> cache_face_at_link # Unset]
    /\ cache_face_at_link' = face_at_link
    /\ property_calcs' =
          IF cache_face_at_link # Unset THEN property_calcs
          ELSE [property_calcs EXCEPT !.face_at_link = @ + 1]
    /\ UNCHANGED <<pc, err, inputVars, solverVars, nodeVars, linkVars, patchVars,
                   faceVars, cellVars, cache_cell_at_node,
                   cache_area_of_patch, writes, twin>>

\* A read of r_of_node, phi_of_node or theta_of_node: the stored array, or,
\* on AttributeError, _setup_node_spherical_coords fills all three first.
ReadSphericalOfNode ==
    /\ pc = "done"
    /\ \E prop \in SphericalProps :
           LET hit == cache_spherical[prop] # Unset
               filled == IF hit THEN cache_spherical
                         ELSE cartesian_to_spherical(coords_of_node)
           IN  /\ cache_spherical' = filled
               /\ spherical_calcs' = spherical_calcs + (IF hit THEN 0 ELSE 1)
               /\ returned' = [prop |-> prop, value |-> filled[prop],
                               raised |-> "none", stored |-> hit]
    /\ UNCHANGED <<pc, err, inputVars, solverVars, nodeVars, linkVars, faceVars, cellVars,
                   number_of_corners, number_of_patches, nodes_at_patch,
                   corners_at_node, coords_of_corner, rounded_up, nudged,
                   strayed,
                   cache_cell_at_node, cache_face_at_link,
                   cache_area_of_patch, property_calcs, writes, twin>>

\* The parameters of _calc_area_of_patch(self), and the arguments that
\* self._calc_area_of_patch(self) passes: the bound object and self again.
CalcAreaOfPatchParams == 1

CalcAreaOfPatchArgs == 2

\* A read of area_of_patch: the stored array, or, on AttributeError, the
\* call of _calc_area_of_patch, which raises TypeError for its argument
\* count (its body is pass: with a matching count the return of the still
\* missing attribute would raise AttributeError).
ReadAreaOfPatch ==
    /\ pc = "done"
    /\ returned' =
          IF cache_area_of_patch # Unset
          THEN [prop |-> "area_of_patch", value |-> cache_area_of_patch,
                raised |-> "none", stored |-> TRUE]
          ELSE IF CalcAreaOfPatchArgs # CalcAreaOfPatchParams
          THEN [prop |-> "area_of_patch", value |-> Unset,
                raised |-> "TypeError", stored |-> FALSE]
          ELSE [prop |-> "area_of_patch", value |-> Unset,
                raised |-> "AttributeError", stored |-> FALSE]
    /\ UNCHANGED <<pc, err, inputVars, solverVars, nodeVars, linkVars, patchVars,
                   faceVars, cellVars, cache_cell_at_node, cache_face_at_link,
                   cache_area_of_patch, property_calcs, writes, twin>>

\* ------------------------------------------------------ stages of __init__

\* setup_links has run to its end without raising.
LinksBuilt ==
    \/ pc \in {"setup_patches_and_corners", "setup_faces", "setup_cells", "done"}
    \/ pc = "raised" /\ nodes_at_patch # Unset

\* setup_patches_and_corners has run to its end, sort included, without
\* raising.
PatchesBuilt == coords_of_corner # Unset

\* setup_faces has run to its end without raising.
FacesBuilt == pc \in {"setup_cells", "done"}

\* __init__ has returned the mesh.
Completed == pc = "done"

\* The entries of a row other than the sentinel, and their positions.
ValidSlots(row) == {k \in DOMAIN row : row[k] # Sentinel}

ValidEntries(row) == {row[k] : k \in ValidSlots(row)}

\* The valid entries of a row lead, the padding follows.
LeadingThenPadding(row) ==
    \A k \in DOMAIN row : (k < Cardinality(ValidSlots(row))) <=> (row[k] # Sentinel)

\* The nodes a triangle names (an index below 0 counted from the end).
NodesOfPatch(p) == {Idx(nodes_at_patch[p][j], number_of_nodes) : j \in Range(3)}

\* The node at an end (col 0: tail, col 1: head) of a link.
NodeOfLink(i, col) == Idx(nodes_at_link[i][col], number_of_nodes)

\* The patches whose node triple contains both ends of link j.
PatchesAtLink(j) ==
    {p \in Range(number_of_patches) :
        {NodeOfLink(j, 0), NodeOfLink(j, 1)} \subseteq NodesOfPatch(p)}

Next ==
    \/ SetupPatchesAndCorners
    \/ SetupFaces
    \/ SetupCells
    \/ ReadCellAtNode
    \/ ReadFaceAtLink
    \/ ReadSphericalOfNode
    \/ ReadAreaOfPatch
    \/ SetupNodes
    \/ SetupLinks

Spec == Init /\ [][Next]_vars

\* Two objects built side by side.  The meshes, whole ones and ones whose
\* construction ends with an exception in each of the builders that can
\* raise:
TwoBuildInputs ==
    {<<BipyramidVertices, BipyramidFaces>>,
     <<PolarBipyramidVertices, BipyramidFaces>>,
     <<FanVertices, FanFaces>>, <<CapVertices, CapFaces>>,
     <<NoVertices, NoFaces>>, <<SmallVertices, NoFaces>>,
     <<SmallVertices, NegativeIndexFaces>>,
     <<OriginVertices, OriginFaces>>}
    \cup {<<IcoVertices, fs>> : fs \in WithOneDefect(IcoVertices, IcoFaces)}
    \cup {<<TetraVertices, fs>> : fs \in WithOneDefect(TetraVertices, TetraFaces)}

InitTwoBuilds ==
    /\ \E inp \in TwoBuildInputs : ico_vertices = inp[1] /\ ico_faces = inp[2]
    /\ pc = "setup_nodes"
    /\ NoAttributes
    /\ NoSolver

NextTwoBuilds ==
    \/ SetupNodes
    \/ SetupLinks
    \/ SetupPatchesAndCorners
    \/ SetupFaces
    \/ SetupCells
    \/ TwinSetupNodes
    \/ TwinSetupLinks
    \/ TwinSetupPatchesAndCorners
    \/ TwinSetupFaces
    \/ TwinSetupCells

SpecTwoBuilds == InitTwoBuilds /\ [][NextTwoBuilds]_vars

\* ------------------------------------------------------ AdvectionSolverTVD

\* The most calls of calc_rate_of_change_at_nodes followed.
MaxCalls == 3

\* The links of RasterModelGrid((3, 4)), numbered as in the docstring of
\* find_upwind_link_at_link:
\*     .-14-.-15-.-16-.
\*     10  11   12   13
\*     .--7-.--8-.--9-.
\*     3    4    5    6
\*     .--0-.--1-.--2-.
NumberOfGridLinks == 17

GridLinks == Range(NumberOfGridLinks)

\* The links that can be active: those with a core node at an end.
InteriorLinks == {4, 5, 7, 8, 9, 11, 12}

\* grid.parallel_links_at_link, read off the upwind links the docstring
\* gives for u = 1.0 (column 0) and for u = -1.0 (column 1).
parallel_links_at_link == Arr(<<
    Arr(<<-1, 1>>),  Arr(<<0, 2>>),   Arr(<<1, -1>>),
    Arr(<<-1, 10>>), Arr(<<-1, 11>>), Arr(<<-1, 12>>), Arr(<<-1, 13>>),
    Arr(<<-1, 8>>),  Arr(<<7, 9>>),   Arr(<<8, -1>>),
    Arr(<<3, -1>>),  Arr(<<4, -1>>),  Arr(<<5, -1>>),  Arr(<<6, -1>>),
    Arr(<<-1, 15>>), Arr(<<14, 16>>), Arr(<<15, -1>>) >>)

\* The velocity fields of the docstring: a scalar 1.0, -1.0 or 0.0
\* broadcast to the links, and the mixed field u of its last example.
Uniform(speed) == [l \in GridLinks |-> speed]

MixedVelocity ==
    [l \in GridLinks |->
        IF l \in {4, 5, 7} THEN -1
        ELSE IF l \in {8, 9, 11, 12} THEN 1 ELSE 0]

Reversed(u) == [l \in DOMAIN u |-> -u[l]]

VelocityFields ==
    {Uniform(1), Uniform(-1), Uniform(0), MixedVelocity, Reversed(MixedVelocity)}

\* The link statuses: a link with no core node at an end is inactive, an
\* interior link is active unless a boundary node at its end is closed.
Statuses ==
    {[l \in GridLinks |->
        IF l \in InteriorLinks \ closed THEN "ACTIVE" ELSE "INACTIVE"] :
            closed \in SUBSET {4, 9, 11}}

\* cols = np.choose(u >= 0, [1, 0]): column 0 where u >= 0, else column 1.
UpwindColumn(ul) == IF ul >= 0 THEN 0 ELSE 1

\* find_upwind_link_at_link(grid, u): uwl = pll[np.arange(len(pll)), cols].
find_upwind_link_at_link(pll, u) ==
    [l \in DOMAIN pll |-> pll[l][UpwindColumn(u[l])]]

\* self._upwind_link_at_link[status_at_link == LinkStatus.INACTIVE] = -1
MaskInactive(uwl, status) ==
    [l \in DOMAIN uwl |-> IF status[l] = "INACTIVE" THEN -1 ELSE uwl[l]]

\* The two statements that assign self._upwind_link_at_link.
UpwindTable(u, status) ==
    MaskInactive(find_upwind_link_at_link(parallel_links_at_link, u), status)

\* A grid with its link statuses and its advection__velocity field, before
\* a solver is made for it.
InitTVD ==
    /\ ico_vertices = Unset /\ ico_faces = Unset
    /\ pc = "none"
    /\ NoAttributes
    /\ status_at_link \in Statuses
    /\ vel \in VelocityFields
    /\ solver = "none"
    /\ advection_direction_is_steady = FALSE
    /\ upwind_link_at_link = Unset
    /\ upwind_calcs = 0 /\ rate_calls = 0
    /\ field_writes = [flux |-> 0, scalar |-> 0]
    /\ last_call = "none"

\* AdvectionSolverTVD.__init__(grid, advection_direction_is_steady=steady)
Construct ==
    /\ solver = "none"
    /\ \E steady \in BOOLEAN :
          /\ advection_direction_is_steady' = steady
          /\ IF steady
             THEN /\ upwind_link_at_link' = UpwindTable(vel, status_at_link)
                  /\ upwind_calcs' = upwind_calcs + 1
             ELSE UNCHANGED <<upwind_link_at_link, upwind_calcs>>
    /\ solver' = "constructed"
    /\ last_call' = "__init__"
    /\ UNCHANGED <<graphVars, status_at_link, vel, rate_calls, field_writes>>

\* Variant: the upwind links are found again whatever the flag says
calc_rate_of_change_at_nodes_always(method, scalar_writes) ==
    /\ solver = "constructed"
    /\ rate_calls < MaxCalls
    /\ upwind_link_at_link' = UpwindTable(vel, status_at_link)
    /\ upwind_calcs' = upwind_calcs + 1
    /\ rate_calls' = rate_calls + 1
    /\ field_writes' = [flux |-> field_writes.flux + 1,
                        scalar |-> field_writes.scalar + scalar_writes]
    /\ last_call' = method
    /\ UNCHANGED <<graphVars, status_at_link, vel, solver,
                   advection_direction_is_steady>>

\* calc_rate_of_change_at_nodes(dt), called as method: the upwind links are
\* found again unless the direction is steady; the flux field is assigned;
\* update adds one assignment to the advected field.
calc_rate_of_change_at_nodes(method, scalar_writes) ==
    /\ solver = "constructed"
    /\ rate_calls < MaxCalls
    /\ IF ~advection_direction_is_steady
       THEN /\ upwind_link_at_link' = UpwindTable(vel, status_at_link)
            /\ upwind_calcs' = upwind_calcs + 1
       ELSE UNCHANGED <<upwind_link_at_link, upwind_calcs>>
    /\ rate_calls' = rate_calls + 1
    /\ field_writes' = [flux |-> field_writes.flux + 1,
                        scalar |-> field_writes.scalar + scalar_writes]
    /\ last_call' = method
    /\ UNCHANGED <<graphVars, status_at_link, vel, solver,
                   advection_direction_is_steady>>

CalcRateOfChangeAtNodes ==
    calc_rate_of_change_at_nodes("calc_rate_of_change_at_nodes", 0)

\* update(dt): roc = self.calc_rate_of_change_at_nodes(dt); self._scalar += ...
Update == calc_rate_of_change_at_nodes("update", 1)

\* run_one_step(dt): self.update(dt)
RunOneStep == calc_rate_of_change_at_nodes("run_one_step", 1)

\* The caller assigns another velocity field to advection__velocity, in
\* place: self._vel is the same array.
ChangeVelocity ==
    /\ \E u \in VelocityFields \ {vel} : vel' = u
    /\ UNCHANGED <<graphVars, status_at_link, solver,
                   advection_direction_is_steady, upwind_link_at_link,
                   upwind_calcs, rate_calls, field_writes, last_call>>

NextTVD ==
    \/ Construct
    \/ CalcRateOfChangeAtNodes
    \/ Update
    \/ RunOneStep
    \/ ChangeVelocity

SpecTVD == InitTVD /\ [][NextTVD]_vars

\* ================================================================ claims

\* C1: in every mesh whose construction completes, number_of_faces equals
\* number_of_links, number_of_cells equals number_of_nodes,
\* number_of_corners equals number_of_patches, and the mapping tables
\* cell_at_node / node_at_cell and face_at_link / link_at_face, cached or
\* returned, are the identity on [0, count).
C1_DualBijection ==
    Completed =>
        /\ number_of_faces = number_of_links
        /\ number_of_cells = number_of_nodes
        /\ number_of_corners = number_of_patches
        /\ cache_cell_at_node # Unset =>
              /\ DOMAIN cache_cell_at_node = Range(number_of_nodes)
              /\ \A n \in Range(number_of_nodes) : cache_cell_at_node[n] = n
        /\ cache_face_at_link # Unset =>
              /\ DOMAIN cache_face_at_link = Range(number_of_links)
              /\ \A j \in Range(number_of_links) : cache_face_at_link[j] = j
        /\ returned.prop \in {"cell_at_node", "node_at_cell"} =>
              /\ DOMAIN returned.value = Range(number_of_cells)
              /\ \A n \in Range(number_of_cells) : returned.value[n] = n
        /\ returned.prop \in {"face_at_link", "link_at_face"} =>
              /\ DOMAIN returned.value = Range(number_of_faces)
              /\ \A j \in Range(number_of_faces) : returned.value[j] = j

\* C1 witness: the completed icosahedron, link_at_face read after
\* cell_at_node was cached.
C1_Witness ==
    /\ Completed
    /\ number_of_links = 30
    /\ number_of_nodes = 12
    /\ returned.prop = "link_at_face"
    /\ cache_cell_at_node # Unset

\* The directed edges of a triangle list in the order setup_links visits
\* them: (v0, v1), (v1, v2), (v2, v0) of triangle 0, then of triangle 1, ...
EdgeVisited(faces, k) ==
    <<faces[k \div 3][k % 3], faces[k \div 3][(k + 1) % 3]>>

EdgeVisits(faces) == Range(3 * ALen(faces))

\* The unordered pair of node indices of a directed edge.
UnorderedPair(e) == {e[1], e[2]}

\* The first visit of the pair that visit k names.
FirstVisit(faces, k) ==
    CHOOSE f \in EdgeVisits(faces) :
        /\ UnorderedPair(EdgeVisited(faces, f)) = UnorderedPair(EdgeVisited(faces, k))
        /\ \A g \in 0..(f - 1) :
              UnorderedPair(EdgeVisited(faces, g)) # UnorderedPair(EdgeVisited(faces, f))

\* C2: for every triangle list, setup_links makes exactly one link per
\* unordered pair of node indices that occur together on an edge of some
\* triangle, and each link's (tail, head) is the orientation of the first
\* visit of that pair, the triangles taken in list order and each
\* triangle's edges as (v0, v1), (v1, v2), (v2, v0).
C2_OneLinkPerPair ==
    links_at_node # Unset =>
        /\ number_of_links = Len(links)
        /\ number_of_links =
              Cardinality({UnorderedPair(EdgeVisited(ico_faces, k)) :
                              k \in EdgeVisits(ico_faces)})
        /\ \A k \in EdgeVisits(ico_faces) :
              Cardinality({i \in 1..Len(links) :
                  UnorderedPair(links[i].val) =
                      UnorderedPair(EdgeVisited(ico_faces, k))}) = 1
        /\ \A i \in 1..Len(links) :
              \E k \in EdgeVisits(ico_faces) :
                  /\ UnorderedPair(EdgeVisited(ico_faces, k)) = UnorderedPair(links[i].val)
                  /\ links[i].val = EdgeVisited(ico_faces, FirstVisit(ico_faces, k))
        /\ LinksBuilt =>
              \A i \in 1..Len(links) :
                  /\ nodes_at_link[i - 1][0] = links[i].val[1]
                  /\ nodes_at_link[i - 1][1] = links[i].val[2]

\* C2 witness: setup_links has built the 30 links of the icosahedron, whose
\* every pair is visited twice, once in each orientation.
C2_Witness ==
    /\ LinksBuilt
    /\ number_of_links = 30
    /\ ALen(ico_faces) = 20
    /\ \E k \in EdgeVisits(ico_faces) :
          /\ FirstVisit(ico_faces, k) < k
          /\ EdgeVisited(ico_faces, k) # EdgeVisited(ico_faces, FirstVisit(ico_faces, k))

\* The slots of a node's row that hold link i with direction dir.
LinkSlots(n, i, dir) ==
    {k \in Range(Capacity) :
        links_at_node[n][k] = i /\ link_dirs_at_node[n][k] = dir}

\* C3: after setup_links every link i is in exactly one slot of
\* links_at_node[tail(i)] with link_dirs_at_node -1 in the same slot, in
\* exactly one slot of links_at_node[head(i)] with +1, and in no other
\* node's row; in every row of links_at_node the valid entries lead and
\* the other slots hold -1; the entries other than -1 number twice the
\* links.
C3_LinkIncidence ==
    LinksBuilt =>
        /\ \A i \in Range(number_of_links) :
              /\ Cardinality(LinkSlots(NodeOfLink(i, 0), i, -1)) = 1
              /\ Cardinality(LinkSlots(NodeOfLink(i, 1), i, 1)) = 1
              /\ \A n \in Range(number_of_nodes) : \A k \in Range(Capacity) :
                    links_at_node[n][k] = i =>
                        \/ n = NodeOfLink(i, 0) /\ link_dirs_at_node[n][k] = -1
                        \/ n = NodeOfLink(i, 1) /\ link_dirs_at_node[n][k] = 1
        /\ \A n \in Range(number_of_nodes) :
              /\ LeadingThenPadding(links_at_node[n])
              /\ \A k \in Range(Capacity) :
                    links_at_node[n][k] # Sentinel =>
                        links_at_node[n][k] \in Range(number_of_links)
        /\ Cardinality({<<n, k>> \in Range(number_of_nodes) \X Range(Capacity) :
                           links_at_node[n][k] # Sentinel}) = 2 * number_of_links

\* C3 witness: the links of the icosahedron are built, link 0 leaves node 0
\* and enters node 11.
C3_Witness ==
    /\ LinksBuilt
    /\ number_of_links = 30
    /\ LinkSlots(0, 0, -1) = {0}
    /\ LinkSlots(11, 0, 1) # {}

\* A closed triangle mesh: the two ends of every link lie together in
\* exactly two patches.
ClosedMesh ==
    \A j \in Range(number_of_links) : Cardinality(PatchesAtLink(j)) = 2

\* C4: on a closed triangle mesh corners_at_face[j] is (lo, hi) with
\* lo < hi, and lo, hi are exactly the two patches whose node triples
\* contain both ends of link j.
C4_FaceCorners ==
    (FacesBuilt /\ ClosedMesh) =>
        \A j \in Range(number_of_links) :
            /\ corners_at_face[j][0] < corners_at_face[j][1]
            /\ {corners_at_face[j][0], corners_at_face[j][1]} = PatchesAtLink(j)

\* C4 witness: the faces of the icosahedron are built; face 0 joins
\* corners 0 and 4.
C4_Witness ==
    /\ FacesBuilt
    /\ ClosedMesh
    /\ number_of_links = 30
    /\ corners_at_face[0] = Arr(<<0, 4>>)

\* The level-0 icosahedron is the input.
IsIcosahedron == ico_faces = IcoFaces /\ ico_vertices = IcoVertices

\* C5: the level-0 icosahedron gives 12 nodes, 30 links, 20 patches and
\* corners, 30 faces and 12 cells; node 0 has five valid corners and one
\* sentinel; link 0 joins nodes 0 and 11; patch 0 has nodes (0, 11, 5);
\* links_at_node[0] is [0, 2, 4, 6, 8, -1].
C5_Icosahedron ==
    (Completed /\ IsIcosahedron) =>
        /\ number_of_nodes = 12
        /\ number_of_links = 30
        /\ number_of_patches = 20
        /\ number_of_corners = 20
        /\ number_of_faces = 30
        /\ number_of_cells = 12
        /\ Cardinality(ValidSlots(corners_at_node[0])) = 5
        /\ Cardinality({k \in Range(Capacity) : corners_at_node[0][k] = Sentinel}) = 1
        /\ nodes_at_link[0] = Arr(<<0, 11>>)
        /\ nodes_at_patch[0] = Arr(<<0, 11, 5>>)
        /\ links_at_node[0] = Arr(<<0, 2, 4, 6, 8, -1>>)

\* C5 as stated: the same with 20 faces in place of 30.
C5_AsStated ==
    (Completed /\ IsIcosahedron) =>
        /\ number_of_nodes = 12
        /\ number_of_links = 30
        /\ number_of_patches = 20
        /\ number_of_corners = 20
        /\ number_of_faces = 20
        /\ number_of_cells = 12
        /\ Cardinality(ValidSlots(corners_at_node[0])) = 5
        /\ Cardinality({k \in Range(Capacity) : corners_at_node[0][k] = Sentinel}) = 1
        /\ nodes_at_link[0] = Arr(<<0, 11>>)
        /\ nodes_at_patch[0] = Arr(<<0, 11, 5>>)
        /\ links_at_node[0] = Arr(<<0, 2, 4, 6, 8, -1>>)

\* C5 witness: the icosahedron is completed.
C5_Witness ==
    /\ Completed
    /\ IsIcosahedron
    /\ number_of_cells = 12

\* A triangle list the builder must not accept: an index outside
\* [0, number of vertices), or a triangle that names a vertex twice.
IndexOutOfRange(faces, nverts) ==
    \E t \in DOMAIN faces : \E j \in Range(3) : faces[t][j] \notin Range(nverts)

RepeatedVertex(faces) ==
    \E t \in DOMAIN faces : \E j \in Range(3) : faces[t][j] = faces[t][(j + 1) % 3]

MalformedInput ==
    IndexOutOfRange(ico_faces, ALen(ico_vertices)) \/ RepeatedVertex(ico_faces)

\* C6 as stated: malformed input, a triangle naming an index outside
\* [0, number_of_nodes) or naming a vertex twice, makes construction fail;
\* no mesh is completed from it.
C6_AsStated == MalformedInput => ~Completed

\* The patches whose triangle normal has zero length.
ZeroNormalPatches ==
    {p \in Range(number_of_corners) : IsNaN(coords_of_corner[p])}

\* C7 as stated: a patch whose normal has zero length is reported as a
\* fatal error during corner construction; construction never completes
\* with a corner whose coordinates are undefined.
C7_AsStated == Completed => ZeroNormalPatches = {}

\* Every entry of a table of rows lies in a set.
EntriesIn(table, S) ==
    \A r \in DOMAIN table : \A k \in DOMAIN table[r] : table[r][k] \in S

\* C8 as stated: in every completed mesh each entry of links_at_node,
\* corners_at_node, nodes_at_link, nodes_at_patch and corners_at_face is
\* the sentinel -1 or an index in [0, count) of the entity it refers to,
\* and the sentinel occurs only in the padding of the two capacity-6
\* per-node tables.
C8_AsStated ==
    Completed =>
        /\ EntriesIn(links_at_node, Range(number_of_links) \cup {Sentinel})
        /\ EntriesIn(corners_at_node, Range(number_of_corners) \cup {Sentinel})
        /\ \A n \in Range(number_of_nodes) :
              /\ LeadingThenPadding(links_at_node[n])
              /\ LeadingThenPadding(corners_at_node[n])
        /\ EntriesIn(nodes_at_link, Range(number_of_nodes))
        /\ EntriesIn(nodes_at_patch, Range(number_of_nodes))
        /\ EntriesIn(corners_at_face, Range(number_of_corners))

\* C9: for every node of a completed mesh, corners_at_node[i] has as many
\* valid entries as links_at_node[i], the node's degree (5 or 6 on an
\* icosphere), and the corners listed are exactly the patches whose node
\* triple contains node i.
C9_CornersMatchDegree ==
    Completed =>
        \A n \in Range(number_of_nodes) :
            /\ Cardinality(ValidSlots(corners_at_node[n])) =
                  Cardinality(ValidSlots(links_at_node[n]))
            /\ ValidEntries(corners_at_node[n]) =
                  {p \in Range(number_of_patches) : n \in NodesOfPatch(p)}
            /\ IsIcosahedron =>
                  Cardinality(ValidSlots(corners_at_node[n])) \in {5, 6}

\* C9 witness: the completed icosahedron, node 0 with five corners and
\* five links.
C9_Witness ==
    /\ Completed
    /\ IsIcosahedron
    /\ Cardinality(ValidSlots(corners_at_node[0])) = 5
    /\ Cardinality(ValidSlots(links_at_node[0])) = 5

\* The order of the builders in __init__.
BuilderOrder ==
    { <<"setup_nodes", "setup_links">>,
      <<"setup_links", "setup_patches_and_corners">>,
      <<"setup_patches_and_corners", "setup_faces">>,
      <<"setup_faces", "setup_cells">>,
      <<"setup_cells", "done">> }

\* A step of construction keeps the order of the builders (or raises) and
\* leaves the tables of the earlier builders as they were.
C10_Step ==
    /\ pc' # pc => (<<pc, pc'>> \in BuilderOrder \/ pc' = "raised")
    /\ pc = "setup_patches_and_corners" =>
          UNCHANGED <<coords_of_node, nodes_at_link, links_at_node,
                      link_dirs_at_node>>
    /\ pc = "setup_faces" =>
          UNCHANGED <<coords_of_node, nodes_at_link, links_at_node,
                      link_dirs_at_node, nodes_at_patch, corners_at_node,
                      coords_of_corner>>
    /\ pc = "setup_cells" =>
          UNCHANGED <<coords_of_node, nodes_at_link, links_at_node,
                      link_dirs_at_node, nodes_at_patch, corners_at_node,
                      coords_of_corner, corners_at_face>>

\* C10: construction runs the builders in the order nodes, links, patches
\* and corners, faces, cells, and no builder changes a table of an earlier
\* builder: setup_patches_and_corners leaves coords_of_node, nodes_at_link,
\* links_at_node and link_dirs_at_node unchanged, setup_faces those and
\* nodes_at_patch, corners_at_node and coords_of_corner, setup_cells all of
\* those and corners_at_face.
C10_OrderAndFrame == [][C10_Step]_vars

\* C10 witness: all five builders have run on the icosahedron.
C10_Witness ==
    /\ Completed
    /\ number_of_cells = 12
    /\ corners_at_face # Unset
    /\ corners_at_node # Unset
    /\ links_at_node # Unset

\* Every slot of table t has been assigned a number of times in S since
\* the allocation.
WritesWithin(t, S) ==
    \A r \in DOMAIN writes[t] : \A k \in DOMAIN writes[t][r] : writes[t][r][k] \in S

\* In a per-node table a slot holding an entry has been assigned c times, a
\* padding slot never.
ValidSlotsWritten(t, table, c) ==
    \A n \in DOMAIN table : \A k \in DOMAIN table[n] :
        writes[t][n][k] = (IF table[n][k] # Sentinel THEN c ELSE 0)

\* The assignments to the slots of the index tables, c of them to each
\* valid slot of corners_at_node and one to every other written slot.
SlotWriteCounts(c) ==
    /\ \A t \in IndexTables \ {"corners_at_node"} : WritesWithin(t, {0, 1})
    /\ WritesWithin("corners_at_node", 0..c)
    /\ LinksBuilt =>
          /\ ValidSlotsWritten("links_at_node", links_at_node, 1)
          /\ \A n \in Range(number_of_nodes) : \A k \in Range(Capacity) :
                writes.link_dirs_at_node[n][k] = writes.links_at_node[n][k]
          /\ \A i \in DOMAIN nodes_at_link : \A col \in Range(2) :
                writes.nodes_at_link[i][col] =
                    (IF i < number_of_links THEN 1 ELSE 0)
    /\ PatchesBuilt =>
          /\ WritesWithin("nodes_at_patch", {1})
          /\ ValidSlotsWritten("corners_at_node", corners_at_node, c)
    /\ FacesBuilt => WritesWithin("corners_at_face", {1})

\* No step outside a table's owning builder assigns to the table.
OnlyOwnerWrites ==
    /\ pc # "setup_links" =>
          /\ UNCHANGED <<nodes_at_link, links_at_node, link_dirs_at_node>>
          /\ \A t \in {"nodes_at_link", "links_at_node", "link_dirs_at_node"} :
                writes'[t] = writes[t]
    /\ pc # "setup_patches_and_corners" =>
          /\ UNCHANGED <<nodes_at_patch, corners_at_node>>
          /\ \A t \in {"nodes_at_patch", "corners_at_node"} :
                writes'[t] = writes[t]
    /\ pc # "setup_faces" =>
          /\ UNCHANGED corners_at_face
          /\ writes'.corners_at_face = writes.corners_at_face

\* C11: every index table is assigned only during its owning builder's pass
\* and never afterwards; each written slot is assigned exactly once, except
\* the valid slots of corners_at_node, which setup_patches_and_corners
\* assigns twice: when it collects the patches and again in
\* sort_corners_ccw.
C11_WrittenByOwnerOnly == [](SlotWriteCounts(2)) /\ [][OnlyOwnerWrites]_vars

\* C11 as stated: every slot of every index table, those of corners_at_node
\* included, is assigned exactly once, during its owning builder's pass, and
\* never afterwards.
C11_AsStated == [](SlotWriteCounts(1)) /\ [][OnlyOwnerWrites]_vars

\* C11 witness: the icosahedron is completed; slot 0 of corners_at_node[0]
\* holds corner 3 after two assignments, slot 0 of links_at_node[0] holds
\* link 0 after one.
C11_Witness ==
    /\ Completed
    /\ IsIcosahedron
    /\ corners_at_node[0][0] = 3
    /\ writes.corners_at_node[0][0] = 2
    /\ writes.links_at_node[0][0] = 1
    /\ writes.corners_at_face[0][0] = 1

\* C12 as stated: the first access to area_of_patch computes the patch
\* areas, stores them and returns them, and every later access returns the
\* stored value.
C12_AsStated ==
    returned.prop = "area_of_patch" =>
        /\ returned.raised = "none"
        /\ cache_area_of_patch # Unset
        /\ returned.value = cache_area_of_patch

\* What the memoized properties hold and how often each was computed.
CachesTwoState ==
    /\ spherical_calcs \in {0, 1}
    /\ property_calcs.cell_at_node \in {0, 1}
    /\ property_calcs.face_at_link \in {0, 1}
    /\ \A prop \in SphericalProps :
          cache_spherical[prop] # Unset <=> spherical_calcs = 1
    /\ cache_cell_at_node # Unset <=> property_calcs.cell_at_node = 1
    /\ cache_face_at_link # Unset <=> property_calcs.face_at_link = 1
    /\ returned.prop \in SphericalProps =>
          returned.value = cache_spherical[returned.prop]
    /\ returned.prop \in {"cell_at_node", "node_at_cell"} =>
          returned.value = cache_cell_at_node
    /\ returned.prop \in {"face_at_link", "link_at_face"} =>
          returned.value = cache_face_at_link

\* A computed property is neither computed again nor replaced.
CachesKept ==
    /\ spherical_calcs = 1 =>
          UNCHANGED <<spherical_calcs, cache_spherical>>
    /\ cache_cell_at_node # Unset =>
          /\ UNCHANGED cache_cell_at_node
          /\ property_calcs'.cell_at_node = property_calcs.cell_at_node
    /\ cache_face_at_link # Unset =>
          /\ UNCHANGED cache_face_at_link
          /\ property_calcs'.face_at_link = property_calcs.face_at_link

\* C13: r_of_node, phi_of_node, theta_of_node, cell_at_node and face_at_link
\* are two-state caches: over any sequence of accesses each computation
\* runs at most once per mesh object, the first access to any of r, phi,
\* theta fills all three, and every later access returns the stored value
\* without computing again.
C13_TwoStateCaches == [](CachesTwoState) /\ [][CachesKept]_vars

\* C13 witness: the mesh without a node, where the sort read no
\* phi_of_node and the first read of a spherical property is the one that
\* computes.  All five have been read, each computed once; the last read,
\* of theta_of_node, returned the stored (empty) array without computing.
C13_Witness ==
    /\ Completed
    /\ number_of_nodes = 0
    /\ returned.prop = "theta_of_node"
    /\ returned.stored
    /\ returned.value = cache_spherical.theta_of_node
    /\ spherical_calcs = 1
    /\ \A prop \in SphericalProps : cache_spherical[prop] = ARange(0)
    /\ property_calcs.cell_at_node = 1
    /\ cache_cell_at_node = ARange(0)
    /\ property_calcs.face_at_link = 1
    /\ cache_face_at_link = ARange(0)

\* A builder has run in both objects, to its end or to the exception that
\* ended it: the attribute it assigns first is there in both.
BothRan(mine, twins) == mine # Unset /\ twins # Unset

WedgeTimesDegree ==
    \A cell \in Range(number_of_cells) :
        /\ area_of_cell[cell].ntri =
              (IF \E k \in Range(Capacity) : corners_at_node[cell][k] = Sentinel
               THEN 5 ELSE 6)
        /\ area_of_cell[cell].tri[1] = cell
        /\ Cardinality(ValidSlots(corners_at_node[cell])) >= 2 =>
              /\ area_of_cell[cell].tri[2] = corners_at_node[cell][0]
              /\ area_of_cell[cell].tri[3] = corners_at_node[cell][1]

\* C15: for every cell setup_cells multiplies the area of the wedge
\* triangle (node, first corner, second corner of the node's corner list)
\* by the cell's polygon degree, 5 if a slot of the node's corner list is
\* the sentinel and 6 otherwise, and on the mesh __init__ builds, the
\* icosahedron, that multiplier is the number of non-sentinel corners in
\* the node's corner list of every cell; so it is at every node of five or
\* six corners of any mesh, the nodes an icosphere is made of.
C15_CellMultiplier ==
    Completed =>
        /\ WedgeTimesDegree
        /\ IsIcosahedron =>
              \A cell \in Range(number_of_cells) :
                  area_of_cell[cell].ntri =
                      Cardinality(ValidSlots(corners_at_node[cell]))
        /\ \A cell \in Range(number_of_cells) :
              Cardinality(ValidSlots(corners_at_node[cell])) \in {5, 6} =>
                  area_of_cell[cell].ntri =
                      Cardinality(ValidSlots(corners_at_node[cell]))

\* C15 witness: the completed icosahedron: cell 0 has five corners and a
\* sentinel in its list, the multiplier 5, and the wedge of node 0 and the
\* first two corners of its sorted list.
C15_Witness ==
    /\ Completed
    /\ IsIcosahedron
    /\ Cardinality(ValidSlots(corners_at_node[0])) = 5
    /\ corners_at_node[0][5] = Sentinel
    /\ area_of_cell[0].ntri = 5
    /\ area_of_cell[0].tri =
          <<0, corners_at_node[0][0], corners_at_node[0][1]>>

\* The valid entries of a node's row are in strictly increasing angle.
AnglesAt(node) ==
    AngleContext(corners_at_node[node], coords_of_corner,
                 coords_of_node[node], node,
                 [wrap |-> rounded_up, stray |-> strayed, nudge |-> nudged])

StrictlyIncreasing(row, g) ==
    \A k \in Range(CountNonSentinel(row) - 1) :
        KeyLess(g.key[k + 1], g.key[k + 2])

StrictlyIncreasingAngles(node) ==
    StrictlyIncreasing(corners_at_node[node], AnglesAt(node))

\* The valid entries of a node's row are in non-decreasing angle, NaN last.
NonDecreasing(row, g) ==
    \A k \in Range(CountNonSentinel(row) - 1) :
        ~KeyLess(g.key[k + 2], g.key[k + 1])

NonDecreasingAngles(node) ==
    NonDecreasing(corners_at_node[node], AnglesAt(node))

\* No two valid entries of a node's row lie at the same exact angle, and
\* none has an undefined one: whatever the rounding, their angles differ.
Distinct(row, g) ==
    LET nc == CountNonSentinel(row)
    IN  \A j \in Range(nc) : \A k \in Range(nc) :
            /\ g.key[j + 1].place.s # 5
            /\ j < k => ~SamePlace(g.key[j + 1].place, g.key[k + 1].place)

DistinctAngles(node) == Distinct(corners_at_node[node], AnglesAt(node))

\* C16: after sort_corners_ccw, on the mesh __init__ builds (the
\* icosahedron), the valid entries of every node's corner list, walked in
\* stored order, have strictly increasing local-frame angle, and no two
\* corners of a node share an angle; on any triangle list the order is
\* non-decreasing, corners of undefined angle last.
C16_SortedByAngle ==
    PatchesBuilt =>
        /\ IsIcosahedron =>
              \A node \in Range(number_of_nodes) :
                  /\ StrictlyIncreasingAngles(node)
                  /\ DistinctAngles(node)
        /\ \A node \in Range(number_of_nodes) : NonDecreasingAngles(node)

\* C16 witness: the corners of the icosahedron are sorted; node 4 has five
\* corners of pairwise different angles, one of them an angle of exactly
\* zero that rounding has put last, and the sort has moved corners.
C16_Witness ==
    /\ PatchesBuilt
    /\ IsIcosahedron
    /\ CountNonSentinel(corners_at_node[4]) = 5
    /\ DistinctAngles(4)
    /\ \E c \in Range(number_of_corners) :
          <<4, c>> \in rounded_up /\ corners_at_node[4][4] = c
    /\ corners_at_node # PatchTables(ico_faces, number_of_nodes, coords_of_node).corners_at_node

\* With a steady direction the upwind links are found once, at
\* construction, from the velocity of that moment.
SteadyOnce ==
    (solver = "constructed" /\ advection_direction_is_steady) =>
        /\ upwind_calcs = 1
        /\ upwind_link_at_link # Unset

\* In every table of upwind links an inactive link has -1.
InactiveHaveNone ==
    upwind_link_at_link # Unset =>
        \A l \in GridLinks :
            status_at_link[l] = "INACTIVE" => upwind_link_at_link[l] = -1

\* What a step does to the table: construction with a steady direction
\* assigns the table of the velocity of that moment; afterwards no step
\* changes it. With an unsteady direction construction assigns nothing and
\* every call of calc_rate_of_change_at_nodes (alone, or through update or
\* run_one_step) assigns the table of the current velocity.
UpwindStep ==
    /\ (solver = "none" /\ solver' = "constructed") =>
          IF advection_direction_is_steady'
          THEN upwind_link_at_link' =
                  MaskInactive([l \in GridLinks |->
                      parallel_links_at_link[l][IF vel[l] >= 0 THEN 0 ELSE 1]],
                      status_at_link)
          ELSE upwind_link_at_link' = Unset /\ upwind_calcs' = 0
    /\ (solver = "constructed" /\ advection_direction_is_steady) =>
          UNCHANGED <<upwind_link_at_link, upwind_calcs>>
    /\ (solver = "constructed" /\ ~advection_direction_is_steady) =>
          IF rate_calls' = rate_calls + 1
          THEN /\ upwind_calcs' = upwind_calcs + 1
               /\ \A l \in GridLinks :
                     upwind_link_at_link'[l] =
                        IF status_at_link[l] = "INACTIVE" THEN -1
                        ELSE parallel_links_at_link[l][IF vel[l] >= 0 THEN 0 ELSE 1]
          ELSE UNCHANGED <<upwind_link_at_link, upwind_calcs>>

\* C17: with advection_direction_is_steady=True the upwind-link table is
\* computed exactly once, at construction, and no sequence of update,
\* run_one_step and calc_rate_of_change_at_nodes calls changes it, whatever
\* happens to the velocity in between; with the flag False every call of
\* calc_rate_of_change_at_nodes computes it again from the current
\* velocity; in both cases an inactive link's upwind link is -1.
C17_UpwindTable ==
    /\ [](SteadyOnce /\ InactiveHaveNone)
    /\ [][UpwindStep]_vars

\* C17 witness: a solver with a steady direction after three calls, the
\* last one run_one_step, with an advected field assigned to; the velocity
\* has changed since construction, so that link 8 no longer has the upwind
\* link its velocity gives, and the inactive link 11 has -1.
C17_Witness ==
    /\ solver = "constructed"
    /\ advection_direction_is_steady
    /\ rate_calls = 3
    /\ last_call = "run_one_step"
    /\ field_writes.scalar >= 1
    /\ upwind_link_at_link # UpwindTable(vel, status_at_link)
    /\ upwind_link_at_link[8] = 7 /\ vel[8] < 0
    /\ status_at_link[11] = "INACTIVE"
    /\ upwind_link_at_link[11] = -1

\* The corners of every node as the patch loop collected them, before
\* sort_corners_ccw.
CollectedCorners ==
    PatchTables(ico_faces, number_of_nodes, coords_of_node).corners_at_node

\* How often a value occurs in a row.
Occurrences(row, v) == Cardinality({k \in DOMAIN row : row[k] = v})

\* C18: sort_corners_ccw only permutes: for every node the valid corners
\* after the sort are those collected before it, each as often as before,
\* they occupy the leading slots, and the trailing sentinel slots are as
\* they were.
C18_SortPermutes ==
    PatchesBuilt =>
        \A node \in Range(number_of_nodes) :
            LET before == CollectedCorners[node]
                after == corners_at_node[node]
            IN  /\ ValidEntries(after) = ValidEntries(before)
                /\ \A c \in Range(number_of_corners) :
                      Occurrences(after, c) = Occurrences(before, c)
                /\ LeadingThenPadding(after)
                /\ \A k \in DOMAIN before :
                      before[k] = Sentinel => after[k] = Sentinel

\* C18 witness: the corners of the icosahedron are sorted; the sort has
\* moved corners of node 0, whose row keeps its five corners in front of
\* the one sentinel slot.
C18_Witness ==
    /\ PatchesBuilt
    /\ IsIcosahedron
    /\ corners_at_node[0] # CollectedCorners[0]
    /\ ValidEntries(corners_at_node[0]) = ValidEntries(CollectedCorners[0])
    /\ Cardinality(ValidEntries(corners_at_node[0])) = 5
    /\ corners_at_node[0][5] = Sentinel

\* The distinct edges of a triangle list: the keys add_link sees.
DistinctEdges(faces) ==
    {LinkKey(EdgeVisited(faces, k)[1], EdgeVisited(faces, k)[2]) :
        k \in EdgeVisits(faces)}

\* setup_links has run and raised.
SetupLinksRaised == pc = "raised" /\ ~LinksBuilt

\* Every row of nodes_at_link holds the (tail, head) of a link, assigned
\* once.
RowsAreLinks ==
    /\ ALen(nodes_at_link) = number_of_links
    /\ \A i \in Range(ALen(nodes_at_link)) :
          /\ writes.nodes_at_link[i][0] = 1
          /\ writes.nodes_at_link[i][1] = 1
          /\ i < number_of_links =>
                /\ nodes_at_link[i][0] = links[i + 1].val[1]
                /\ nodes_at_link[i][1] = links[i + 1].val[2]

\* A triangle list with more distinct edges than 1.5 x triangles makes
\* setup_links raise.
TooManyEdgesRaise ==
    (pc \notin {"setup_nodes", "setup_links"}
        /\ 2 * Cardinality(DistinctEdges(ico_faces)) > 3 * ALen(ico_faces)) =>
            SetupLinksRaised

\* C19: whenever construction completes nodes_at_link, allocated with
\* int(1.5 x triangles) rows, has exactly number_of_links rows, each
\* written with the (tail, head) of a link; a triangle list with more
\* distinct edges than 1.5 x triangles makes setup_links fail.
C19_RowsAreLinks ==
    /\ Completed => RowsAreLinks
    /\ TooManyEdgesRaise

\* C19 witness: the completed icosahedron: 20 triangles, 30 rows allocated,
\* 30 links, the last row holding the last link registered.
C19_Witness ==
    /\ Completed
    /\ IsIcosahedron
    /\ ALen(nodes_at_link) = (3 * ALen(ico_faces)) \div 2
    /\ number_of_links = 30
    /\ nodes_at_link[29][0] = links[30].val[1]
    /\ nodes_at_link[29][1] = links[30].val[2]
    /\ writes.nodes_at_link[29][1] = 1

\* C20 as stated: construction completes only if every link's endpoint pair
\* is shared by exactly two patches; with a link of one adjacent patch, or
\* of three or more, setup_faces raises; no completed mesh has a face whose
\* two corners are equal or left at the default value.
C20_AsStated ==
    /\ Completed =>
          /\ \A j \in Range(number_of_links) : Cardinality(PatchesAtLink(j)) = 2
          /\ \A f \in Range(number_of_faces) :
                /\ corners_at_face[f][0] # corners_at_face[f][1]
                /\ writes.corners_at_face[f][0] = 1
                /\ writes.corners_at_face[f][1] = 1
    /\ (PatchesBuilt /\ pc # "setup_faces"
          /\ \E j \in Range(number_of_links) : Cardinality(PatchesAtLink(j)) # 2) =>
              pc = "raised"

====
